---- MODULE Spec2Model ----
(***************************************************************************)
(* Model of the payment-transport core of sphinx-relay                     *)
(* (src/src/grpc/lightning.ts): keysend, the message weaving protocol      *)
(* keysendMessage, the backend client cache loadLightning, the paginated   *)
(* history reads, the wallet lock, signing and verifying, the channel     *)
(* calls, the wallet-unlocker and router clients; of the LDAT token codec   *)
(* (utils/ldat, src/unnamed/part_001); and of the badge bot and the media  *)
(* token of a direct payment (src/src/builtin/badge.ts).                   *)
(*                                                                         *)
(* Strings are sequences of one-character strings.  One JavaScript task    *)
(* runs at a time; every action below is one run of the event loop from    *)
(* one suspension point (await, RPC callback, timer) to the next.          *)
(***************************************************************************)
EXTENDS Integers, Sequences, FiniteSets, TLC

VARIABLES
    config,          \* static configuration: backend kind, proxy configured
    now,             \* the wall clock, milliseconds (Date.valueOf)
    lightningClient, \* module-level cached client handle
    routerClient,    \* module-level cached router client
    nextHandle,      \* number of client handles constructed so far
    owner,           \* keysendMessage argument ownerPubkey: supplied or not
    opts,            \* keysendMessage argument opts
    pc,              \* position of the keysendMessage task
    i,               \* loop variable of the weave
    n,               \* number of chunks of the weave
    ts,              \* timestamp captured before the loop
    success,         \* weave flag: some chunk resolved
    fail,            \* weave flag: some chunk rejected
    res,             \* response of the last resolved chunk
    awaiting,        \* index in calls of the keysend call being awaited
    outcome,         \* how keysendMessage settled
    calls,           \* every keysend call made so far, in call order
    lastEvent,       \* the last event a sendPaymentV2 stream delivered, and to
                     \* which call
    pg,              \* the paginated history read (listAllInvoices/Payments)
    gets,            \* every loadLightning call and proxy resolution, in order
    isLocked,        \* module-level wallet lock flag
    lockTimers,      \* pending lock timers: the time each has left to run
    lockLog,         \* every setLock call so far, in call order
    lockAge,         \* the time passed since the last setLock call, up to the
                     \* lock interval
    sg,              \* the sign / verify task
    ld,              \* the LDAT token task
    chan,            \* the channel call (openChannel, channelBalance, ...)
    ldr,             \* the cached wallet-unlocker and router clients and every
                     \* loadWalletUnlocker / loadRouter call so far
    bdg              \* the badge bot: its message handlers under way, the
                     \* badges members hold, every transferBadge call so far

vars == <<config, now, lightningClient, routerClient, nextHandle, owner, opts,
          pc, i, n, ts, success, fail, res, awaiting, outcome, calls, lastEvent, pg,
          gets, isLocked, lockTimers, lockLog, lockAge, sg, ld, chan, ldr, bdg>>

\* the state outside the payment transport
extVars ==
    <<gets, isLocked, lockTimers, lockLog, lockAge, sg, ld, chan, ldr, bdg>>

\* the state of the keysendMessage task
msgVars == <<owner, opts, pc, i, n, ts, success, fail, res, awaiting, outcome>>

(***************************************************************************)
(* Bounds of the model and constants of the program.                       *)
(***************************************************************************)
MaxChunks == 3          \* longest payload is MaxChunks * MAX_MSG_LENGTH
StartTime == 1699       \* clock value when the model starts
MaxGets == 3           \* loadLightning calls in one behaviour of SpecClient
MaxSets == 4           \* setLock calls in one behaviour of SpecLock
LockSteps == 3         \* clock steps that make up the lock interval
LOCK_MS == 120000      \* the lock interval, 1000 * 60 * 2 ms
MaxMsgLen == 2         \* longest message signed in SpecSign, in bytes
MaxMeta == 2           \* most entries of a token's metadata in SpecLdat
MaxOps == 2            \* channel calls in one behaviour of SpecChannel
MaxCalls == 2          \* keysend calls in one behaviour of SpecStream
MaxLoads == 4          \* loadWalletUnlocker / loadRouter calls in SpecLoaders
MaxMessages == 2       \* messages the badge bot handles in SpecBadge
MaxPages == 3           \* most pages one history read fetches

MAX_MSG_LENGTH == 972
SLEEP_MS == 432
MIN_SAT_AMOUNT == 3
PUBKEY_HEX_LENGTH == 66
PAGE_LIMIT == 40

Max(a, b) == IF a >= b THEN a ELSE b
Min(a, b) == IF a <= b THEN a ELSE b

\* Math.ceil(a / b) for positive b
CeilDiv(a, b) == (a + b - 1) \div b

(***************************************************************************)
(* Strings.                                                                *)
(***************************************************************************)
Digit(d) == <<"0", "1", "2", "3", "4", "5", "6", "7", "8", "9">>[d + 1]

\* the decimal text of a natural number, as a template literal renders it
RECURSIVE ToStr(_)
ToStr(k) == IF k < 10 THEN <<Digit(k)>> ELSE ToStr(k \div 10) \o <<Digit(k % 10)>>

\* the string is a non-empty run of decimal digits
IsDigits(s) == Len(s) > 0 /\ \A p \in 1..Len(s) : \E d \in 0..9 : Digit(d) = s[p]

\* the number a run of decimal digits denotes
RECURSIVE ParseNat(_)
ParseNat(s) ==
    IF Len(s) = 0 THEN 0
    ELSE 10 * ParseNat(SubSeq(s, 1, Len(s) - 1))
         + (CHOOSE d \in 0..9 : Digit(d) = s[Len(s)])

\* a payload of length L; its characters include "_" and digits
BodyChars == <<"a", "_", "7">>
Payload(L) == [p \in 1..L |-> BodyChars[(p % 3) + 1]]

\* a destination string of the given length
Dest(len) == [p \in 1..len |-> "0"]

\* String.prototype.substring(from, to) on a 0-based string
Substring(s, from, to) == SubSeq(s, Min(from, Len(s)) + 1, Min(to, Len(s)))

(***************************************************************************)
(* Backend client cache.                                                   *)
(***************************************************************************)
NoClient == [kind |-> "none", id |-> 0]
ProxyClient == [kind |-> "proxy", id |-> 0]

Backends == {"LND", "GREENLIGHT"}
IS_GREENLIGHT == config.backend = "GREENLIGHT"
IS_LND == config.backend = "LND"

\* isGL(client): a type guard that only reads the static configuration
isGL(client) == IS_GREENLIGHT

\* isProxy(): a forwarding proxy is configured
ProxyConfigured == config.proxy

\* isProxy(client): the client is a forwarding-proxy client
isProxy(client) == client.kind = "proxy"

\* loadLightning: the condition of its first branch
TakesProxyPath(tryProxy, ownerPubkey) == tryProxy /\ ProxyConfigured /\ ownerPubkey

\* the handle kind of the statically configured backend
BackendKind == IF IS_GREENLIGHT THEN "gl" ELSE "lnd"

\* mutant: the cached handle is never reused
LoadLocal_AlwaysBuilds(cache, nh, noCache, credsOk) ==
    IF ~credsOk
    THEN [ok |-> FALSE, client |-> NoClient, cache |-> cache, nh |-> nh]
    ELSE LET h == [kind |-> BackendKind, id |-> nh + 1]
         IN  [ok |-> TRUE, client |-> h, cache |-> h, nh |-> nh + 1]

\* mutant: the new handle of a bypassing call is returned but not stored
LoadLocal_NoStore(cache, nh, noCache, credsOk) ==
    IF cache.kind # "none" /\ ~noCache
    THEN [ok |-> TRUE, client |-> cache, cache |-> cache, nh |-> nh]
    ELSE IF ~credsOk
    THEN [ok |-> FALSE, client |-> NoClient, cache |-> cache, nh |-> nh]
    ELSE LET h == [kind |-> BackendKind, id |-> nh + 1]
         IN  [ok |-> TRUE, client |-> h,
              cache |-> IF cache.kind # "none" THEN cache ELSE h, nh |-> nh + 1]

\* loadLightning past its first branch: the cached handle, or a new handle for
\* the configured backend, which becomes the cached one.  credsOk: the
\* credential files could be read (loadCredentials throws otherwise).
LoadLocal(cache, nh, noCache, credsOk) ==
    IF cache.kind # "none" /\ ~noCache
    THEN [ok |-> TRUE, client |-> cache, cache |-> cache, nh |-> nh]
    ELSE IF ~credsOk
    THEN [ok |-> FALSE, client |-> NoClient, cache |-> cache, nh |-> nh]
    ELSE LET h == [kind |-> IF IS_GREENLIGHT THEN "gl" ELSE "lnd", id |-> nh + 1]
         IN  [ok |-> TRUE, client |-> h, cache |-> h, nh |-> nh + 1]

(***************************************************************************)
(* keysend.                                                                *)
(***************************************************************************)
\* mutant: only a destination that is too short is refused
DestInvalid_TooShortOnly(dest) == Len(dest) < PUBKEY_HEX_LENGTH

\* keysend's first check: the destination is not 66 characters long
DestInvalid(dest) == Len(dest) # PUBKEY_HEX_LENGTH

\* mutant: the amount asked for goes into the request as it is
RequestAmt_AsAsked(amt) == amt

\* the amount placed in the payment request
RequestAmt(amt) == Max(amt, MIN_SAT_AMOUNT)

Settled(c) == c.st \in {"resolved", "rejected"}

BlankCall(o, idx) ==
    [idx |-> idx, amt |-> o.amt, data |-> o.data, destLen |-> Len(o.dest),
     st |-> "awaitClient", via |-> "none", loadOk |-> FALSE, client |-> NoClient,
     resolved |-> NoClient, transport |-> "none", clientCalls |-> 0, rpcs |-> 0, reqAmt |-> 0,
     stream |-> "none", err |-> "", resp |-> 0]

\* keysend up to its first await: the destination check, then the call of
\* loadLightning(true, ownerPubkey), which itself runs up to its first await.
KeysendStart(o, idx, ownerPubkey, credsOk) ==
    IF DestInvalid(o.dest)
    THEN [call |-> [BlankCall(o, idx) EXCEPT !.st = "rejected",
                                             !.err = "keysend: invalid pubkey"],
          cache |-> lightningClient, nh |-> nextHandle]
    ELSE IF TakesProxyPath(TRUE, ownerPubkey)
    THEN [call |-> [BlankCall(o, idx) EXCEPT !.via = "proxy", !.clientCalls = 1,
                                             !.reqAmt = RequestAmt(o.amt)],
          cache |-> lightningClient, nh |-> nextHandle]
    ELSE LET r == LoadLocal(lightningClient, nextHandle, FALSE, credsOk)
         IN  [call |-> [BlankCall(o, idx) EXCEPT !.via = "local", !.clientCalls = 1,
                                                 !.loadOk = r.ok, !.client = r.client,
                                                 !.reqAmt = RequestAmt(o.amt)],
              cache |-> r.cache, nh |-> r.nh]

\* a call of keysend by the keysendMessage task, which then awaits it
IssueKeysend(o, idx, ownerPubkey, credsOk) ==
    LET s == KeysendStart(o, idx, ownerPubkey, credsOk)
    IN  /\ calls' = Append(calls, s.call)
        /\ lightningClient' = s.cache
        /\ nextHandle' = s.nh
        /\ awaiting' = Len(calls) + 1

\* mutant: the proxy client is not looked at, the backend alone decides
Dispatch_IgnoresProxy(c, lightning, cache, nh, rc, credsOk) ==
    [call |-> [c EXCEPT !.st = "rpc", !.rpcs = 1, !.clientCalls = 2,
                        !.resolved = lightning, !.client = lightning,
                        !.transport = IF isGL(lightning) THEN "gl" ELSE "router",
                        !.stream = IF isGL(lightning) THEN "none" ELSE "open"],
     cache |-> cache, nh |-> nh, rc |-> rc]

\* keysend once it holds the client of loadLightning(true, ownerPubkey): the
\* choice of the transport and the payment RPC on it
Dispatch(c, lightning, cache, nh, rc, credsOk) ==
    LET cr == [c EXCEPT !.resolved = lightning]
    IN
    IF isProxy(lightning)
    THEN [call |-> [cr EXCEPT !.st = "rpc", !.transport = "proxy", !.rpcs = 1,
                             !.client = lightning],
          cache |-> cache, nh |-> nh, rc |-> rc]
    ELSE LET r == LoadLocal(cache, nh, FALSE, credsOk)
         IN  IF ~r.ok
             THEN [call |-> [cr EXCEPT !.st = "rejected", !.clientCalls = 2,
                                      !.err = "cannot read LND macaroon or cert"],
                   cache |-> r.cache, nh |-> r.nh, rc |-> rc]
             ELSE IF isGL(r.client)
             THEN [call |-> [cr EXCEPT !.st = "rpc", !.transport = "gl", !.rpcs = 1,
                                      !.clientCalls = 2, !.client = r.client],
                   cache |-> r.cache, nh |-> r.nh, rc |-> rc]
             ELSE IF ~rc /\ ~credsOk
             THEN [call |-> [cr EXCEPT !.st = "rejected", !.clientCalls = 2,
                                      !.err = "cannot read LND macaroon or cert"],
                   cache |-> r.cache, nh |-> r.nh, rc |-> rc]
             ELSE [call |-> [cr EXCEPT !.st = "rpc", !.transport = "router", !.rpcs = 1,
                                      !.clientCalls = 2, !.client = r.client,
                                      !.stream = "open"],
                   cache |-> r.cache, nh |-> r.nh, rc |-> TRUE]

ApplyDispatch(k, d) ==
    /\ calls' = [calls EXCEPT ![k] = d.call]
    /\ lightningClient' = d.cache
    /\ nextHandle' = d.nh
    /\ routerClient' = d.rc

\* loadProxyLightning settles: loadLightning assigns its result to the cached
\* handle, throws when there is none, and keysend goes on with the client
ProxyResolved(k) ==
    /\ k \in 1..Len(calls)
    /\ calls[k].st = "awaitClient"
    /\ calls[k].via = "proxy"
    /\ \E found \in BOOLEAN :
          IF found
          THEN ApplyDispatch(k, Dispatch(calls[k], ProxyClient, ProxyClient,
                                         nextHandle, routerClient, TRUE))
          ELSE /\ calls' = [calls EXCEPT ![k].st = "rejected",
                                         ![k].err = "no lightning client"]
               /\ lightningClient' = NoClient
               /\ UNCHANGED <<nextHandle, routerClient>>
    /\ UNCHANGED extVars
    /\ UNCHANGED <<config, now, msgVars, lastEvent, pg>>

\* loadLightning(true, ownerPubkey) returned without the proxy: keysend goes on
\* with the cached or new client, or rejects with what loadLightning threw
ClientReady(k) ==
    /\ k \in 1..Len(calls)
    /\ calls[k].st = "awaitClient"
    /\ calls[k].via = "local"
    /\ IF ~calls[k].loadOk
       THEN /\ calls' = [calls EXCEPT ![k].st = "rejected",
                                      ![k].err = "cannot read LND macaroon or cert"]
            /\ UNCHANGED <<lightningClient, nextHandle, routerClient>>
       ELSE \E credsOk \in BOOLEAN :
                ApplyDispatch(k, Dispatch(calls[k], calls[k].client, lightningClient,
                                          nextHandle, routerClient, credsOk))
    /\ UNCHANGED extVars
    /\ UNCHANGED <<config, now, msgVars, lastEvent, pg>>

\* the callback of the proxy's sendPaymentSync
ProxyReply(k) ==
    /\ k \in 1..Len(calls)
    /\ calls[k].st = "rpc"
    /\ calls[k].transport = "proxy"
    /\ \E r \in {"ok", "err", "payment_error"} :
          calls' = [calls EXCEPT ![k] =
                      IF r = "ok"
                      THEN [@ EXCEPT !.st = "resolved", !.resp = k]
                      ELSE [@ EXCEPT !.st = "rejected", !.err = r]]
    /\ UNCHANGED extVars
    /\ UNCHANGED <<config, now, lightningClient, routerClient, nextHandle, msgVars,
                   lastEvent, pg>>

\* the callback of the remote signer's keysend
GreenlightReply(k) ==
    /\ k \in 1..Len(calls)
    /\ calls[k].st = "rpc"
    /\ calls[k].transport = "gl"
    /\ \E r \in {"ok", "err"} :
          calls' = [calls EXCEPT ![k] =
                      IF r = "ok"
                      THEN [@ EXCEPT !.st = "resolved", !.resp = k]
                      ELSE [@ EXCEPT !.st = "rejected", !.err = r]]
    /\ UNCHANGED extVars
    /\ UNCHANGED <<config, now, lightningClient, routerClient, nextHandle, msgVars,
                   lastEvent, pg>>

\* what one 'data' event of the sendPaymentV2 stream does to the call
StreamEvents == {"IN_FLIGHT", "SUCCEEDED", "FAILED", "FAILED_NO_ROUTE",
                 "payment_error", "UNKNOWN"}
OnData(c, k, ev) ==
    IF ev = "payment_error" THEN [c EXCEPT !.st = "rejected", !.err = ev]
    ELSE IF ev = "IN_FLIGHT" THEN c
    ELSE IF ev = "FAILED_NO_ROUTE" THEN [c EXCEPT !.st = "rejected", !.err = "failure_reason"]
    ELSE IF ev = "FAILED" THEN [c EXCEPT !.st = "rejected", !.err = "failure_reason"]
    ELSE IF ev = "SUCCEEDED" THEN [c EXCEPT !.st = "resolved", !.resp = k]
    ELSE c

\* mutant: a settled promise is settled again
Settle_Overwrites(c, new) == new

\* resolve and reject of the promise: they do nothing once it is settled
Settle(c, new) == IF Settled(c) THEN c ELSE new

\* a 'data' event of the stream of a pending call
RouterData(k) ==
    /\ k \in 1..Len(calls)
    /\ calls[k].st = "rpc"
    /\ calls[k].transport = "router"
    /\ calls[k].stream = "open"
    /\ \E ev \in StreamEvents :
          /\ calls' = [calls EXCEPT ![k] = Settle(@, OnData(@, k, ev))]
          /\ lastEvent' = [k |-> k, ev |-> ev]
    /\ UNCHANGED extVars
    /\ UNCHANGED <<config, now, lightningClient, routerClient, nextHandle, msgVars,
                   pg>>

\* the 'error' event of the stream
RouterError(k) ==
    /\ k \in 1..Len(calls)
    /\ calls[k].st = "rpc"
    /\ calls[k].transport = "router"
    /\ calls[k].stream = "open"
    /\ calls' = [calls EXCEPT ![k] =
                    [Settle(@, [@ EXCEPT !.st = "rejected", !.err = "stream error"])
                        EXCEPT !.stream = "closed"]]
    /\ lastEvent' = [k |-> k, ev |-> "error"]
    /\ UNCHANGED extVars
    /\ UNCHANGED <<config, now, lightningClient, routerClient, nextHandle, msgVars,
                   pg>>

\* mutant: the end of the stream rejects the call
RouterEnd_Rejects(k) ==
    /\ k \in 1..Len(calls)
    /\ calls[k].st = "rpc"
    /\ calls[k].transport = "router"
    /\ calls[k].stream = "open"
    /\ calls' = [calls EXCEPT ![k].stream = "closed", ![k].st = "rejected",
                              ![k].err = "stream end"]
    /\ lastEvent' = [k |-> k, ev |-> "end"]
    /\ UNCHANGED extVars
    /\ UNCHANGED <<config, now, lightningClient, routerClient, nextHandle, msgVars,
                   pg>>

\* the stream ends with no terminal state: no handler listens, the call stays
\* pending
RouterEnd(k) ==
    /\ k \in 1..Len(calls)
    /\ calls[k].st = "rpc"
    /\ calls[k].transport = "router"
    /\ calls[k].stream = "open"
    /\ calls' = [calls EXCEPT ![k].stream = "closed"]
    /\ lastEvent' = [k |-> k, ev |-> "end"]
    /\ UNCHANGED extVars
    /\ UNCHANGED <<config, now, lightningClient, routerClient, nextHandle, msgVars,
                   pg>>

(***************************************************************************)
(* keysendMessage: the message weaving protocol.                           *)
(***************************************************************************)
\* the payload lengths the model sends: none, one character, at and just
\* below every multiple of MAX_MSG_LENGTH up to MaxChunks, just above the
\* first and between the first two
PayloadLens ==
    {0, 1, MAX_MSG_LENGTH + 1, MAX_MSG_LENGTH + (MAX_MSG_LENGTH \div 2)}
    \cup {k * MAX_MSG_LENGTH + d : k \in 1..MaxChunks, d \in {-1, 0}}
DestLens == {PUBKEY_HEX_LENGTH - 1, PUBKEY_HEX_LENGTH, PUBKEY_HEX_LENGTH + 1}
Amts == {MIN_SAT_AMOUNT - 2, MIN_SAT_AMOUNT, MIN_SAT_AMOUNT + 2}

\* KeysendOpts; hasData is false when opts.data is undefined
OptsSet ==
    {[dest |-> Dest(dl), amt |-> a, hasData |-> TRUE, data |-> Payload(L)] :
        dl \in DestLens, a \in Amts, L \in PayloadLens}
    \cup {[dest |-> Dest(PUBKEY_HEX_LENGTH), amt |-> MIN_SAT_AMOUNT,
           hasData |-> FALSE, data |-> <<>>]}

\* mutant: only an undefined payload is refused
NoPayload_UndefinedOnly(o) == ~o.hasData

\* !opts.data || typeof opts.data !== 'string'
NoPayload(o) == ~o.hasData \/ Len(o.data) = 0

\* opts.data.length < MAX_MSG_LENGTH
IsShort(data) == Len(data) < MAX_MSG_LENGTH

\* mutant: one chunk more than the whole multiples of MAX_MSG_LENGTH
NumChunks_FloorPlusOne(L) == (L \div MAX_MSG_LENGTH) + 1

\* n = Math.ceil(opts.data.length / MAX_MSG_LENGTH)
NumChunks(L) == CeilDiv(L, MAX_MSG_LENGTH)

\* mutant: the chunk width rounded down
Spliti_Floor(L, cnt) == L \div cnt

\* spliti = Math.ceil(opts.data.length / n)
Spliti(L, cnt) == CeilDiv(L, cnt)

\* m = opts.data.substring(i * spliti, i * spliti + spliti)
ChunkBody(data, idx, cnt) ==
    LET spliti == Spliti(Len(data), cnt)
    IN  Substring(data, idx * spliti, idx * spliti + spliti)

\* mutant: every chunk carries the caller's amount
ChunkAmt_AlwaysFull(o, idx, cnt) == o.amt

\* amt = isLastThread ? opts.amt : constants.min_sat_amount
ChunkAmt(o, idx, cnt) == IF idx = cnt - 1 THEN o.amt ELSE MIN_SAT_AMOUNT

\* mutant: the timestamp is read again for every chunk
ChunkPayload_FreshTime(t, idx, cnt, m) ==
    ToStr(now) \o <<"_">> \o ToStr(idx) \o <<"_">> \o ToStr(cnt) \o <<"_">> \o m

\* `${ts}_${i}_${n}_${m}`
ChunkPayload(t, idx, cnt, m) ==
    ToStr(t) \o <<"_">> \o ToStr(idx) \o <<"_">> \o ToStr(cnt) \o <<"_">> \o m

\* mutant: a weave with one resolved chunk counts as sent
WeaveOk_AnySuccess(s, f) == s

\* success && !fail
WeaveOk(s, f) == s /\ ~f

Resolved(v) == [kind |-> "resolved", resp |-> v, err |-> ""]
Rejected(e) == [kind |-> "rejected", resp |-> 0, err |-> e]
Pending == [kind |-> "pending", resp |-> 0, err |-> ""]

\* keysendMessage is called: the payload check, then the direct keysend or
\* the set-up of the weave
KeysendMessage ==
    /\ pc = "idle"
    /\ \E o \in OptsSet, ow \in BOOLEAN, credsOk \in BOOLEAN :
          /\ opts' = o
          /\ owner' = ow
          /\ IF NoPayload(o)
             THEN /\ outcome' = Rejected("string plz")
                  /\ pc' = "done"
                  /\ UNCHANGED <<n, ts, i, calls, lightningClient, nextHandle, awaiting>>
             ELSE IF IsShort(o.data)
             THEN /\ IssueKeysend(o, -1, ow, credsOk)
                  /\ pc' = "direct"
                  /\ UNCHANGED <<n, ts, i, outcome>>
             ELSE /\ n' = NumChunks(Len(o.data))
                  /\ ts' = now
                  /\ i' = 0
                  /\ pc' = "loop"
                  /\ UNCHANGED <<outcome, calls, lightningClient, nextHandle, awaiting>>
    /\ UNCHANGED extVars
    /\ UNCHANGED <<config, now, routerClient, success, fail, res, lastEvent, pg>>

\* the direct keysend settled: keysendMessage settles the same way
DirectReturn ==
    /\ pc = "direct"
    /\ Settled(calls[awaiting])
    /\ outcome' = IF calls[awaiting].st = "resolved"
                  THEN Resolved(calls[awaiting].resp)
                  ELSE Rejected(calls[awaiting].err)
    /\ pc' = "done"
    /\ UNCHANGED extVars
    /\ UNCHANGED <<config, now, lightningClient, routerClient, nextHandle, owner,
                   opts, i, n, ts, success, fail, res, awaiting, calls, lastEvent, pg>>

\* mutant: the chunk call is not awaited, the loop goes straight on
WeaveIssue_NoAwait ==
    /\ pc = "loop"
    /\ i < n
    /\ \E credsOk \in BOOLEAN :
          IssueKeysend([opts EXCEPT !.amt = ChunkAmt(opts, i, n),
                                    !.data = ChunkPayload(ts, i, n,
                                                          ChunkBody(opts.data, i, n))],
                       i, owner, credsOk)
    /\ i' = i + 1
    /\ pc' = "loop"
    /\ UNCHANGED extVars
    /\ UNCHANGED <<config, now, routerClient, owner, opts, n, ts, success, fail,
                   res, outcome, lastEvent, pg>>

\* one pass of the loop body up to `await keysend(...)`
WeaveIssue ==
    /\ pc = "loop"
    /\ i < n
    /\ \E credsOk \in BOOLEAN :
          IssueKeysend([opts EXCEPT !.amt = ChunkAmt(opts, i, n),
                                    !.data = ChunkPayload(ts, i, n,
                                                          ChunkBody(opts.data, i, n))],
                       i, owner, credsOk)
    /\ pc' = "await"
    /\ UNCHANGED extVars
    /\ UNCHANGED <<config, now, routerClient, owner, opts, i, n, ts, success, fail,
                   res, outcome, lastEvent, pg>>

\* mutant: a rejected chunk ends the loop
WeaveResume_AbortOnFailure ==
    /\ pc = "await"
    /\ Settled(calls[awaiting])
    /\ IF calls[awaiting].st = "resolved"
       THEN /\ res' = calls[awaiting].resp
            /\ success' = TRUE
            /\ pc' = "sleep"
            /\ UNCHANGED <<fail, i>>
       ELSE /\ fail' = TRUE
            /\ i' = n
            /\ pc' = "loop"
            /\ UNCHANGED <<res, success>>
    /\ UNCHANGED extVars
    /\ UNCHANGED <<config, now, lightningClient, routerClient, nextHandle, owner,
                   opts, n, ts, awaiting, outcome, calls, lastEvent, pg>>

\* the awaited chunk settled: success and the pause, or the catch block and
\* the next pass
WeaveResume ==
    /\ pc = "await"
    /\ Settled(calls[awaiting])
    /\ IF calls[awaiting].st = "resolved"
       THEN /\ res' = calls[awaiting].resp
            /\ success' = TRUE
            /\ pc' = "sleep"
            /\ UNCHANGED <<fail, i>>
       ELSE /\ fail' = TRUE
            /\ i' = i + 1
            /\ pc' = "loop"
            /\ UNCHANGED <<res, success>>
    /\ UNCHANGED extVars
    /\ UNCHANGED <<config, now, lightningClient, routerClient, nextHandle, owner,
                   opts, n, ts, awaiting, outcome, calls, lastEvent, pg>>

\* sleep(432) is over: the next pass of the loop
SleepDone ==
    /\ pc = "sleep"
    /\ now' = now + SLEEP_MS
    /\ i' = i + 1
    /\ pc' = "loop"
    /\ UNCHANGED extVars
    /\ UNCHANGED <<config, lightningClient, routerClient, nextHandle, owner, opts,
                   n, ts, success, fail, res, awaiting, outcome, calls, lastEvent, pg>>

\* the loop is over: resolve(res) or reject(new Error('fail'))
WeaveFinish ==
    /\ pc = "loop"
    /\ i >= n
    /\ outcome' = IF WeaveOk(success, fail) THEN Resolved(res) ELSE Rejected("fail")
    /\ pc' = "done"
    /\ UNCHANGED extVars
    /\ UNCHANGED <<config, now, lightningClient, routerClient, nextHandle, owner,
                   opts, i, n, ts, success, fail, res, awaiting, calls, lastEvent, pg>>

(***************************************************************************)
(* The specification of keysendMessage and keysend.                        *)
(***************************************************************************)
\* no history read is running
IdlePage == [kind |-> "none", pc |-> "idle", offset |-> 0, requests |-> <<>>,
             replies |-> <<>>, frames |-> <<>>, result |-> <<>>]

NoOpts == [dest |-> <<>>, amt |-> 0, hasData |-> FALSE, data |-> <<>>]

\* no signing or verifying is running
IdleSign ==
    [pc |-> "idle", op |-> "none", input |-> <<>>, owner |-> FALSE, hex |-> <<>>,
     msg |-> <<>>, client |-> NoClient, sig |-> <<>>, signer |-> "none",
     valid |-> FALSE, pubkey |-> <<>>, err |-> "",
     reply |-> [err |-> "", has |-> FALSE]]

\* what parseLDAT returns for the empty token: no field
NoTerms ==
    [has |-> {}, err |-> FALSE, host |-> <<>>, muid |-> <<>>, pubkey |-> <<>>, ts |-> 0,
     meta |-> <<>>, sig |-> <<>>]

\* no token is being built or parsed
IdleLdat ==
    [pc |-> "idle", host |-> <<>>, mediaHost |-> <<>>, muid |-> <<>>, pubkey |-> <<>>,
     ttl |-> <<>>, nowSec |-> 0, meta |-> <<>>, metaStr |-> <<>>, exp |-> 0,
     terms |-> <<>>, bytes |-> <<>>, signed |-> FALSE, token |-> <<>>,
     parsed |-> NoTerms, token2 |-> <<>>, signs |-> 0, cut |-> 0]

\* no channel call is under way; count tells how many were made
IdleChan ==
    [pc |-> "idle", op |-> "none", ownerPubkey |-> FALSE, chanId |-> 0, via |-> "none",
     loadOk |-> FALSE, client |-> NoClient, rpcs |-> 0, result |-> "none", err |-> "",
     count |-> 0]

\* let walletUnlocker / let routerClient: both undefined (0), no handle
\* constructed, no call made
NoLoads == [walletUnlocker |-> 0, routerClient |-> 0, built |-> 0, log |-> <<>>]

\* the badge bot has handled no message: no member holds a badge, no
\* transferBadge call was made
NoBadges == [tasks |-> <<>>, holds |-> {}, transfers |-> <<>>]

Init ==
    /\ config \in [backend : Backends, proxy : BOOLEAN]
    /\ now = StartTime
    /\ lightningClient = NoClient
    /\ routerClient = FALSE
    /\ nextHandle = 0
    /\ owner = FALSE
    /\ opts = NoOpts
    /\ pc = "idle"
    /\ i = 0
    /\ n = 0
    /\ ts = 0
    /\ success = FALSE
    /\ fail = FALSE
    /\ res = 0
    /\ awaiting = 0
    /\ outcome = Pending
    /\ calls = <<>>
    /\ lastEvent = [k |-> 0, ev |-> "none"]
    /\ pg = IdlePage
    /\ gets = <<>>
    /\ isLocked = FALSE
    /\ lockTimers = {}
    /\ lockLog = <<>>
    /\ lockAge = 0
    /\ sg = IdleSign
    /\ ld = IdleLdat
    /\ chan = IdleChan
    /\ ldr = NoLoads
    /\ bdg = NoBadges

KeysendStep ==
    \E k \in 1..MaxChunks :
        \/ ProxyResolved(k)
        \/ ClientReady(k)
        \/ ProxyReply(k)
        \/ GreenlightReply(k)
        \/ RouterData(k)
        \/ RouterError(k)
        \/ RouterEnd(k)

Next ==
    \/ KeysendMessage
    \/ DirectReturn
    \/ WeaveIssue
    \/ WeaveResume
    \/ SleepDone
    \/ WeaveFinish
    \/ KeysendStep

Spec == Init /\ [][Next]_vars

(***************************************************************************)
(* Reading a chunk payload back, as the receiver of a weave does: the      *)
(* first three "_" end the timestamp, the index and the count.             *)
(***************************************************************************)
\* the first position at or after `from` that holds "_", 0 when there is none
SepAt(s, from) ==
    IF \E p \in from..Len(s) : s[p] = "_"
    THEN CHOOSE p \in from..Len(s) : s[p] = "_" /\ \A q \in from..(p - 1) : s[q] # "_"
    ELSE 0

ParseHeader(s) ==
    LET p1 == SepAt(s, 1)
        p2 == IF p1 = 0 THEN 0 ELSE SepAt(s, p1 + 1)
        p3 == IF p2 = 0 THEN 0 ELSE SepAt(s, p2 + 1)
        f1 == SubSeq(s, 1, p1 - 1)
        f2 == SubSeq(s, p1 + 1, p2 - 1)
        f3 == SubSeq(s, p2 + 1, p3 - 1)
    IN  IF p3 = 0 \/ ~IsDigits(f1) \/ ~IsDigits(f2) \/ ~IsDigits(f3)
        THEN [ok |-> FALSE, ts |-> 0, index |-> 0, count |-> 0, body |-> <<>>]
        ELSE [ok |-> TRUE, ts |-> ParseNat(f1), index |-> ParseNat(f2),
              count |-> ParseNat(f3), body |-> SubSeq(s, p3 + 1, Len(s))]

RECURSIVE ConcatBodies(_, _)
ConcatBodies(cs, k) ==
    IF k = 0 THEN <<>> ELSE ConcatBodies(cs, k - 1) \o ParseHeader(cs[k].data).body

\* keysendMessage was called with a payload that is woven
IsWeave == opts.hasData /\ Len(opts.data) >= MAX_MSG_LENGTH
IsDone == pc = "done"
AllResolved == \A k \in 1..Len(calls) : calls[k].st = "resolved"

(***************************************************************************)
(* Claims about keysendMessage and keysend, checked under Spec.            *)
(***************************************************************************)

\* C1: a woven keysendMessage resolves exactly when each of its n chunk calls
\* resolved, and then with the response of the last chunk; when a chunk call
\* rejected, at any position, it rejects with the error 'fail'.
C1_WeaveResult ==
    /\ (IsWeave /\ ~IsDone) => outcome = Pending
    /\ (IsWeave /\ IsDone) =>
          /\ Len(calls) = n
          /\ calls[n].idx = n - 1
          /\ AllResolved => outcome = Resolved(calls[n].resp)
          /\ ~AllResolved => outcome = Rejected("fail")

C1_Witness ==
    /\ IsWeave /\ IsDone /\ n = 3
    /\ calls[1].st = "resolved" /\ calls[2].st = "rejected" /\ calls[3].st = "resolved"
    /\ outcome = Rejected("fail")

\* C2: the chunk calls of a weave are issued in index order 0, 1, ..., n-1, a
\* call is issued only once every earlier call has settled, and so at most
\* one chunk call is in flight.
C2_Sequential ==
    IsWeave =>
        /\ \A k \in 1..Len(calls) : calls[k].idx = k - 1
        /\ \A k \in 1..(Len(calls) - 1) : Settled(calls[k])
        /\ Cardinality({k \in 1..Len(calls) : ~Settled(calls[k])}) <= 1

C2_Witness ==
    /\ IsWeave /\ Len(calls) = 3
    /\ calls[3].st = "rpc" /\ calls[1].st = "rejected" /\ calls[2].st = "resolved"

\* C3: a weave of n chunks makes n keysend calls, one for each index: no
\* index is called twice, and a rejected chunk does not stop the later ones.
C3_OneAttemptPerChunk ==
    IsWeave =>
        /\ Len(calls) <= n
        /\ \A j, k \in 1..Len(calls) : calls[j].idx = calls[k].idx => j = k
        /\ \A k \in 1..Len(calls) : calls[k].idx \in 0..(n - 1)
        /\ IsDone => {calls[k].idx : k \in 1..Len(calls)} = 0..(n - 1)
        /\ (pc = "loop" /\ i < n) => Len(calls) = i

C3_Witness ==
    /\ IsWeave /\ IsDone /\ n = 3 /\ Len(calls) = 3
    /\ calls[1].st = "rejected" /\ calls[2].st = "rejected"

\* C4: the number of keysend calls of a settled keysendMessage depends on the
\* payload length L alone: it is the least k with k * 972 >= L, so 1 for
\* 1 <= L <= 972, 2 for L = 973, and k for L = k * 972.
ExpectedCalls(L) ==
    CHOOSE k \in 1..(L + 1) : k * MAX_MSG_LENGTH >= L /\ (k - 1) * MAX_MSG_LENGTH < L

C4_CallCount ==
    (IsDone /\ opts.hasData /\ Len(opts.data) >= 1) =>
        /\ Len(calls) = ExpectedCalls(Len(opts.data))
        /\ Len(opts.data) <= MAX_MSG_LENGTH => Len(calls) = 1
        /\ Len(opts.data) = MAX_MSG_LENGTH + 1 => Len(calls) = 2
        /\ \A k \in 1..MaxChunks : Len(opts.data) = k * MAX_MSG_LENGTH => Len(calls) = k

C4_Witness ==
    IsDone /\ Len(opts.data) = MAX_MSG_LENGTH /\ Len(calls) = 1 /\ calls[1].idx = 0

\* the one keysend call of the direct path passes opts through and
\* keysendMessage settles as that call settled
DirectCallUnmodified ==
    /\ Len(calls) = 1
    /\ calls[1].data = opts.data
    /\ calls[1].amt = opts.amt
    /\ calls[1].destLen = Len(opts.dest)
    /\ calls[1].idx = -1
    /\ Settled(calls[1])
    /\ outcome = IF calls[1].st = "resolved"
                 THEN Resolved(calls[1].resp) ELSE Rejected(calls[1].err)

\* C5 as stated: for every payload shorter than 972, an absent or empty one
\* included, keysendMessage makes one keysend call with opts unmodified and
\* settles as that call settles.
C5_Original ==
    (IsDone /\ (~opts.hasData \/ Len(opts.data) < MAX_MSG_LENGTH)) => DirectCallUnmodified

\* C5 amended: for every payload of length 1..971 keysendMessage makes one
\* keysend call with opts unmodified and settles as that call settles; for an
\* absent or empty payload it makes no keysend call and rejects 'string plz'.
C5_DirectPath ==
    /\ (IsDone /\ opts.hasData /\ Len(opts.data) \in 1..(MAX_MSG_LENGTH - 1))
          => DirectCallUnmodified
    /\ (IsDone /\ (~opts.hasData \/ Len(opts.data) = 0))
          => (calls = <<>> /\ outcome = Rejected("string plz"))

C5_Witness ==
    /\ IsDone /\ opts.hasData /\ Len(opts.data) = MAX_MSG_LENGTH - 1
    /\ Len(calls) = 1 /\ calls[1].st = "rejected" /\ calls[1].err = "payment_error"
    /\ outcome = Rejected("payment_error")

\* C6: every chunk payload of a weave reads back as timestamp_index_count_body
\* with the timestamp captured before the first chunk, the same for all
\* chunks, count = n and index = the chunk's position; a settled weave has
\* used each index 0..n-1 once.
C6_ChunkHeader ==
    IsWeave =>
        /\ \A k \in 1..Len(calls) :
              LET h == ParseHeader(calls[k].data)
              IN  /\ h.ok
                  /\ h.ts = ts
                  /\ h.ts = ParseHeader(calls[1].data).ts
                  /\ h.count = n
                  /\ h.index = k - 1
                  /\ h.index = calls[k].idx
        /\ IsDone => Len(calls) = n

C6_Witness ==
    /\ IsWeave /\ IsDone /\ n = 3 /\ Len(calls) = 3 /\ now > ts
    /\ ParseHeader(calls[3].data).index = 2

\* C7: the chunk bodies of a weave, concatenated in index order, are the
\* payload; every body is non-empty and at most 972 long; all bodies but the
\* last have the width ceil(L / n).
C7_ChunkSplit ==
    IsWeave =>
        /\ \A k \in 1..Len(calls) :
              LET len == Len(ParseHeader(calls[k].data).body)
              IN  /\ len >= 1
                  /\ len <= MAX_MSG_LENGTH
                  /\ k < n => len * n >= Len(opts.data)
                  /\ k < n => (len - 1) * n < Len(opts.data)
        /\ Len(calls) = n => ConcatBodies(calls, n) = opts.data

C7_Witness ==
    /\ IsWeave /\ Len(calls) = n /\ n = 2 /\ Len(opts.data) = MAX_MSG_LENGTH + 1
    /\ Len(ParseHeader(calls[1].data).body) = 487
    /\ Len(ParseHeader(calls[2].data).body) = 486

\* C8: in a weave every chunk before the last is called with the configured
\* minimum amount and the last chunk with the caller's amount.
C8_ChunkAmounts ==
    IsWeave =>
        \A k \in 1..Len(calls) :
            /\ k < n => calls[k].amt = MIN_SAT_AMOUNT
            /\ k = n => calls[k].amt = opts.amt
            /\ (k < n /\ opts.amt # MIN_SAT_AMOUNT) => calls[k].amt # opts.amt

C8_Witness ==
    /\ IsWeave /\ n = 3 /\ Len(calls) = 3 /\ opts.amt = MIN_SAT_AMOUNT + 2
    /\ calls[3].amt = MIN_SAT_AMOUNT + 2 /\ calls[2].amt = MIN_SAT_AMOUNT

\* C9: a keysend call whose destination is not 66 characters long rejects
\* with the invalid-pubkey error, having called loadLightning not once and
\* issued no payment RPC; no client handle is built or cached for it.
C9_InvalidPubkey ==
    /\ \A k \in 1..Len(calls) :
          calls[k].destLen # PUBKEY_HEX_LENGTH =>
              /\ calls[k].st = "rejected"
              /\ calls[k].err = "keysend: invalid pubkey"
              /\ calls[k].clientCalls = 0
              /\ calls[k].rpcs = 0
              /\ calls[k].transport = "none"
              /\ calls[k].via = "none"
    /\ (pc # "idle" /\ Len(opts.dest) # PUBKEY_HEX_LENGTH) =>
          (lightningClient = NoClient /\ nextHandle = 0 /\ ~routerClient)

C9_Witness ==
    /\ Len(calls) = 1 /\ calls[1].destLen = PUBKEY_HEX_LENGTH + 1
    /\ calls[1].st = "rejected" /\ IsDone /\ outcome = Rejected("keysend: invalid pubkey")

(***************************************************************************)
(* Paginated history: listAllInvoices and listAllPayments.                 *)
(***************************************************************************)
\* what a page reply can carry: first_index_offset (a string) and the number
\* of items
OffsetReplies == {ToStr(0), ToStr(PAGE_LIMIT), ToStr(2 * PAGE_LIMIT), <<>>}
PageSizes == {0, 12, PAGE_LIMIT}

\* the items of the page that answers request number r
PageItems(r, size) == [j \in 1..size |-> <<r, j>>]

\* lastOffset = parseInt(r.first_index_offset); lastOffset > 0
HasNextPage(first_index_offset) ==
    IsDigits(first_index_offset) /\ ParseNat(first_index_offset) > 0

\* mutant: the items of the later pages are put in front
Unwind_Reversed(frames, k, tail) ==
    IF k = 0 THEN tail ELSE tail \o frames[k]

\* the return values of the nested paginate calls, innermost first:
\* r.invoices.concat(await paginateInvoices(limit, lastOffset))
RECURSIVE Unwind(_, _, _)
Unwind(frames, k, tail) ==
    IF k = 0 THEN tail ELSE Unwind(frames, k - 1, frames[k] \o tail)

\* mutant: the next page is asked for at the previous offset plus the limit
NextOffset_AddLimit(prev, first_index_offset) == prev + PAGE_LIMIT

\* the index_offset of the recursive call
NextOffset(prev, first_index_offset) == ParseNat(first_index_offset)

\* listAllInvoices / listAllPayments: paginate(40) with i = 0
ListAll(kind) ==
    /\ pg.pc = "idle"
    /\ pg' = [IdlePage EXCEPT !.kind = kind, !.pc = "request", !.offset = 0]
    /\ UNCHANGED extVars
    /\ UNCHANGED <<config, now, lightningClient, routerClient, nextHandle, msgVars,
                   calls, lastEvent>>

ListAllInvoices == ListAll("invoices")
ListAllPayments == ListAll("payments")

\* listInvoicesPaginated / listPaymentsPaginated: loadLightning(), then the
\* RPC; when loadLightning throws inside the promise executor the promise is
\* never settled
PageRequest ==
    /\ pg.pc = "request"
    /\ \E credsOk \in BOOLEAN :
          LET r == LoadLocal(lightningClient, nextHandle, FALSE, credsOk)
          IN  /\ lightningClient' = r.cache
              /\ nextHandle' = r.nh
              /\ pg' = IF r.ok
                       THEN [pg EXCEPT !.pc = "rpc",
                                       !.requests = Append(@, [offset |-> pg.offset,
                                                               limit |-> PAGE_LIMIT])]
                       ELSE [pg EXCEPT !.pc = "hung"]
    /\ UNCHANGED extVars
    /\ UNCHANGED <<config, now, routerClient, msgVars, calls, lastEvent>>

\* the RPC calls back with a page
PageReply ==
    /\ pg.pc = "rpc"
    /\ \E off \in OffsetReplies, size \in PageSizes :
          /\ Len(pg.requests) < MaxPages \/ ~HasNextPage(off)
          /\ LET items == PageItems(Len(pg.requests), size)
                 reply == [ok |-> TRUE, first_index_offset |-> off, items |-> items]
             IN  pg' = IF HasNextPage(off)
                       THEN [pg EXCEPT !.pc = "request",
                                       !.offset = NextOffset(pg.offset, off),
                                       !.frames = Append(@, items),
                                       !.replies = Append(@, reply)]
                       ELSE [pg EXCEPT !.pc = "done",
                                       !.replies = Append(@, reply),
                                       !.result = Unwind(pg.frames, Len(pg.frames), items)]
    /\ UNCHANGED extVars
    /\ UNCHANGED <<config, now, lightningClient, routerClient, nextHandle, msgVars,
                   calls, lastEvent>>

\* mutant: one catch around the whole read, the pages fetched so far are lost
PageError_DropsPages ==
    /\ pg.pc = "rpc"
    /\ pg' = [pg EXCEPT !.pc = "done",
                        !.replies = Append(@, [ok |-> FALSE, first_index_offset |-> <<>>,
                                               items |-> <<>>]),
                        !.result = <<>>]
    /\ UNCHANGED extVars
    /\ UNCHANGED <<config, now, lightningClient, routerClient, nextHandle, msgVars,
                   calls, lastEvent>>

\* the RPC calls back with an error or with a reply that holds no item list:
\* the promise rejects and the catch block returns []
PageError ==
    /\ pg.pc = "rpc"
    /\ pg' = [pg EXCEPT !.pc = "done",
                        !.replies = Append(@, [ok |-> FALSE, first_index_offset |-> <<>>,
                                               items |-> <<>>]),
                        !.result = Unwind(pg.frames, Len(pg.frames), <<>>)]
    /\ UNCHANGED extVars
    /\ UNCHANGED <<config, now, lightningClient, routerClient, nextHandle, msgVars,
                   calls, lastEvent>>

InitPaginate == Init

NextPaginate ==
    \/ ListAllInvoices
    \/ ListAllPayments
    \/ PageRequest
    \/ PageReply
    \/ PageError

SpecPaginate == InitPaginate /\ [][NextPaginate]_vars

(***************************************************************************)
(* Claims about the paginated history reads, checked under SpecPaginate.   *)
(***************************************************************************)
\* the items of the pages in request order, built from the first page on
RECURSIVE PagesInOrder(_, _)
PagesInOrder(replies, k) ==
    IF k = 0 THEN <<>> ELSE PagesInOrder(replies, k - 1) \o replies[k].items

\* C10: a history read returns the items of the fetched pages in request
\* order; the first request has offset 0 and limit 40, each later request
\* has the first_index_offset of the page before it, and no page is requested
\* after a page whose offset is 0.  Pages (40, 40 items), (0, 12 items) give
\* the 52 items, page 1 then page 2.
C10_Pagination ==
    /\ \A r \in 1..Len(pg.requests) :
          /\ pg.requests[r].limit = 40
          /\ r = 1 => pg.requests[r].offset = 0
          /\ r > 1 =>
                /\ pg.replies[r - 1].ok
                /\ ToStr(pg.requests[r].offset) = pg.replies[r - 1].first_index_offset
                /\ pg.replies[r - 1].first_index_offset # ToStr(0)
    /\ Len(pg.replies) <= Len(pg.requests)
    /\ pg.pc = "done" =>
          /\ Len(pg.replies) = Len(pg.requests)
          /\ pg.result = PagesInOrder(pg.replies, Len(pg.replies))
    /\ (/\ pg.pc = "done"
        /\ Len(pg.replies) = 2
        /\ pg.replies[1].first_index_offset = ToStr(40) /\ Len(pg.replies[1].items) = 40
        /\ pg.replies[2].ok
        /\ pg.replies[2].first_index_offset = ToStr(0) /\ Len(pg.replies[2].items) = 12)
          => /\ Len(pg.result) = 52
             /\ pg.result = pg.replies[1].items \o pg.replies[2].items
             /\ pg.result[1] = <<1, 1>> /\ pg.result[41] = <<2, 1>>

C10_Witness ==
    /\ pg.pc = "done" /\ Len(pg.requests) = 2
    /\ pg.replies[1].first_index_offset = ToStr(40) /\ Len(pg.replies[1].items) = 40
    /\ pg.replies[2].ok
    /\ pg.replies[2].first_index_offset = ToStr(0) /\ Len(pg.replies[2].items) = 12
    /\ Len(pg.result) = 52

\* C11: when the request for page j fails (RPC error, or a reply without an
\* item list) the read resolves with exactly the items of pages 1..j-1 in
\* order, the empty list when j = 1; it does not reject, and no page is
\* requested after the failed one.
C11_FailedPage ==
    \A j \in 1..Len(pg.replies) :
        ~pg.replies[j].ok =>
            /\ j = Len(pg.replies)
            /\ Len(pg.requests) = j
            /\ pg.pc = "done"
            /\ pg.result = PagesInOrder(pg.replies, j - 1)
            /\ Len(pg.result) = Len(PagesInOrder(pg.replies, Len(pg.replies)))
            /\ j = 1 => pg.result = <<>>

C11_Witness ==
    /\ pg.pc = "done" /\ Len(pg.replies) = 2
    /\ pg.replies[1].ok /\ Len(pg.replies[1].items) = PAGE_LIMIT
    /\ ~pg.replies[2].ok
    /\ pg.result = pg.replies[1].items

(***************************************************************************)
(* The backend client cache: sequences of loadLightning calls.             *)
(***************************************************************************)
\* the state of the payment transport, of the history read and of the
\* channel call
transportVars == <<now, routerClient, msgVars, calls, lastEvent, pg, chan, ldr, bdg>>

\* the state of the wallet lock
lockVars == <<isLocked, lockTimers, lockLog, lockAge>>

\* mutant: a missing proxy client falls back to the cached handle
ProxyOutcome_FallsBack(found, cache) ==
    IF found
    THEN [ok |-> TRUE, client |-> ProxyClient, cache |-> ProxyClient, err |-> ""]
    ELSE IF cache.kind # "none"
    THEN [ok |-> TRUE, client |-> cache, cache |-> cache, err |-> ""]
    ELSE [ok |-> FALSE, client |-> NoClient, cache |-> NoClient,
          err |-> "no lightning client"]

\* loadLightning's first branch once loadProxyLightning has settled: its
\* result is assigned to the cached handle, then returned, or thrown about
\* when there is none
ProxyOutcome(found, cache) ==
    IF found
    THEN [ok |-> TRUE, client |-> ProxyClient, cache |-> ProxyClient, err |-> ""]
    ELSE [ok |-> FALSE, client |-> NoClient, cache |-> NoClient,
          err |-> "no lightning client"]

\* one entry of the log of loadLightning: a call, or the settling of the
\* loadProxyLightning a call awaits
GetEvent(ev, id, tryProxy, ownerPubkey, noCache, path, found, st, ret, err, before, after, built) ==
    [ev |-> ev, id |-> id, tryProxy |-> tryProxy, ownerPubkey |-> ownerPubkey,
     noCache |-> noCache, path |-> path, found |-> found, st |-> st, ret |-> ret,
     err |-> err, before |-> before, after |-> after, built |-> built]

NumGetCalls == Cardinality({k \in 1..Len(gets) : gets[k].ev = "call"})

\* the call of log entry k still awaits loadProxyLightning
GetPending(k) ==
    /\ gets[k].ev = "call"
    /\ gets[k].path = "proxy"
    /\ \A m \in 1..Len(gets) : ~(gets[m].ev = "resolved" /\ gets[m].id = k)

\* loadLightning(tryProxy, ownerPubkey, noCache) past its first branch: it
\* runs to its return or throw without suspending
GetClientLocal ==
    /\ NumGetCalls < MaxGets
    /\ \E tryProxy \in BOOLEAN, ownerPubkey \in BOOLEAN, noCache \in BOOLEAN,
          credsOk \in BOOLEAN :
          /\ ~TakesProxyPath(tryProxy, ownerPubkey)
          /\ LET r == LoadLocal(lightningClient, nextHandle, noCache, credsOk)
             IN  /\ lightningClient' = r.cache
                 /\ nextHandle' = r.nh
                 /\ gets' = Append(gets,
                        GetEvent("call", Len(gets) + 1, tryProxy, ownerPubkey, noCache,
                                 "local", FALSE,
                                 IF r.ok THEN "returned" ELSE "threw", r.client,
                                 IF r.ok THEN "" ELSE "cannot read LND macaroon or cert",
                                 lightningClient, r.cache, r.nh # nextHandle))
    /\ UNCHANGED <<config, transportVars, lockVars, sg, ld>>

\* loadLightning(true, ownerPubkey, noCache) with a proxy configured: it
\* suspends at await loadProxyLightning(ownerPubkey)
GetClientProxy ==
    /\ NumGetCalls < MaxGets
    /\ \E tryProxy \in BOOLEAN, ownerPubkey \in BOOLEAN, noCache \in BOOLEAN :
          /\ TakesProxyPath(tryProxy, ownerPubkey)
          /\ gets' = Append(gets,
                 GetEvent("call", Len(gets) + 1, tryProxy, ownerPubkey, noCache,
                          "proxy", FALSE, "pending", NoClient, "",
                          lightningClient, lightningClient, FALSE))
    /\ UNCHANGED <<config, lightningClient, nextHandle, transportVars, lockVars, sg, ld>>

\* loadProxyLightning settles with a client or with nothing
GetClientResolved ==
    \E k \in 1..Len(gets), found \in BOOLEAN :
        /\ GetPending(k)
        /\ LET r == ProxyOutcome(found, lightningClient)
           IN  /\ lightningClient' = r.cache
               /\ gets' = Append(gets,
                      GetEvent("resolved", k, gets[k].tryProxy, gets[k].ownerPubkey,
                               gets[k].noCache, "proxy", found,
                               IF r.ok THEN "returned" ELSE "threw", r.client, r.err,
                               lightningClient, r.cache, FALSE))
        /\ UNCHANGED <<config, nextHandle, transportVars, lockVars, sg, ld>>

InitClient == Init

NextClient ==
    \/ GetClientLocal
    \/ GetClientProxy
    \/ GetClientResolved

SpecClient == InitClient /\ [][NextClient]_vars

(***************************************************************************)
(* Claims about the client cache, checked under SpecClient.                *)
(***************************************************************************)
\* log entry k is a call that did not take the proxy path
LocalCall(k) == gets[k].ev = "call" /\ gets[k].path = "local"

\* C12: after any sequence of loadLightning calls, a call that does not take
\* the proxy path returns a handle bound to the configured backend and never
\* a handle bound to the forwarding proxy.
C12_Original ==
    \A k \in 1..Len(gets) :
        (LocalCall(k) /\ gets[k].st = "returned") =>
            /\ gets[k].ret.kind = BackendKind
            /\ ~isProxy(gets[k].ret)

\* C13: with a handle cached, a call that does not take the proxy path and
\* does not bypass the cache returns the cached handle itself and constructs
\* no handle; such calls made one right after the other return the same
\* handle.
C13_CacheHit ==
    /\ \A k \in 1..Len(gets) :
          (LocalCall(k) /\ ~gets[k].noCache /\ gets[k].before.kind # "none") =>
              /\ gets[k].st = "returned"
              /\ gets[k].ret = gets[k].before
              /\ gets[k].after = gets[k].before
              /\ ~gets[k].built
    /\ \A k \in 1..(Len(gets) - 1) :
          (/\ LocalCall(k) /\ ~gets[k].noCache /\ gets[k].before.kind # "none"
           /\ LocalCall(k + 1) /\ ~gets[k + 1].noCache)
              => gets[k + 1].ret = gets[k].ret

C13_Witness ==
    /\ Len(gets) = 3
    /\ \A k \in 2..3 : LocalCall(k) /\ ~gets[k].noCache /\ gets[k].st = "returned"
    /\ gets[1].built
    /\ gets[2].ret = gets[1].ret /\ gets[3].ret = gets[1].ret
    /\ nextHandle = 1

\* no entry strictly between k and j replaced the cached handle
CacheKept(k, j) == \A m \in (k + 1)..(j - 1) : gets[m].after = gets[m].before

C15_ProxyPath ==
    \A k \in 1..Len(gets) :
        /\ (gets[k].ev = "call" /\ gets[k].tryProxy /\ ProxyConfigured
               /\ gets[k].ownerPubkey)
              => /\ gets[k].path = "proxy"
                 /\ gets[k].st = "pending"
                 /\ ~gets[k].built
        /\ gets[k].ev = "resolved" =>
              /\ gets[gets[k].id].path = "proxy"
              /\ ~gets[k].built
              /\ gets[k].found => /\ gets[k].st = "returned"
                                  /\ gets[k].ret = ProxyClient
                                  /\ isProxy(gets[k].ret)
              /\ ~gets[k].found => /\ gets[k].st = "threw"
                                   /\ gets[k].err = "no lightning client"
                                   /\ gets[k].ret = NoClient

C15_Witness ==
    /\ Len(gets) = 3
    /\ LocalCall(1) /\ gets[1].built
    /\ gets[2].ev = "call" /\ gets[2].path = "proxy"
    /\ gets[2].before = gets[1].ret
    /\ gets[3].ev = "resolved" /\ gets[3].id = 2
    /\ ~gets[3].found /\ gets[3].st = "threw" /\ gets[3].before = gets[1].ret

(***************************************************************************)
(* The wallet lock: setLock, getLock and the timer that clears the lock.   *)
(***************************************************************************)
\* the time that passes in one step of the clock
LockStep == LOCK_MS \div LockSteps

\* mutant: the pending timer is left to run
ClearTimeout_Keeps(timers) == timers

\* clearTimeout(lockTimeout): lockTimeout is the timer created last, the
\* pending timer with the most time left
ClearTimeout(timers) ==
    IF timers = {} THEN {}
    ELSE timers \ {CHOOSE t \in timers : \A u \in timers : u <= t}

\* getLock
getLock == isLocked

\* mutant: setLock stores the flag and arms no timer
setLock_NoTimer(value) ==
    /\ Len(lockLog) < MaxSets
    /\ isLocked' = value
    /\ lockTimers' = ClearTimeout(lockTimers)
    /\ lockLog' = Append(lockLog, value)
    /\ lockAge' = 0
    /\ UNCHANGED <<config, lightningClient, nextHandle, gets, transportVars, sg, ld>>

\* setLock(value): store the flag, cancel the pending timer, arm a new one
setLock(value) ==
    /\ Len(lockLog) < MaxSets
    /\ isLocked' = value
    /\ lockTimers' = ClearTimeout(lockTimers) \cup {LOCK_MS}
    /\ lockLog' = Append(lockLog, value)
    /\ lockAge' = 0
    /\ UNCHANGED <<config, lightningClient, nextHandle, gets, transportVars, sg, ld>>

SetLockTrue == setLock(TRUE)
SetLockFalse == setLock(FALSE)

\* time passes while a timer is running
LockTick ==
    /\ \E t \in lockTimers : t > 0
    /\ lockTimers' = {Max(t - LockStep, 0) : t \in lockTimers}
    /\ lockAge' = Min(lockAge + LockStep, LOCK_MS)
    /\ UNCHANGED <<config, lightningClient, nextHandle, gets, transportVars, sg, ld,
                   isLocked, lockLog>>

\* a timer whose interval has elapsed runs its callback: isLocked = false
LockTimerFire ==
    /\ \E t \in lockTimers :
          /\ t = 0
          /\ lockTimers' = lockTimers \ {t}
    /\ isLocked' = FALSE
    /\ UNCHANGED <<config, lightningClient, nextHandle, gets, transportVars, sg, ld,
                   lockLog, lockAge>>

InitLock == Init

NextLock ==
    \/ SetLockTrue
    \/ SetLockFalse
    \/ LockTick
    \/ LockTimerFire

\* time passes, and the event loop runs a timer that is due
SpecLock == InitLock /\ [][NextLock]_vars /\ WF_vars(LockTick) /\ WF_vars(LockTimerFire)

\* C16: once the lock is set to true and no further setLock call is made,
\* the lock eventually reads false, the interval having elapsed, without an
\* explicit clear: from every state where the lock reads true after c calls,
\* a state follows where it reads false or where another call has been made.
C16_AutoClear ==
    \A c \in 0..MaxSets :
        (getLock /\ Len(lockLog) = c) ~> (~getLock \/ Len(lockLog) # c)

C16_Witness ==
    /\ lockLog = <<TRUE>>
    /\ ~getLock
    /\ lockTimers = {}

(***************************************************************************)
(* Signing and verifying: signBuffer, signAscii, verifyMessage,            *)
(* verifyBytes, verifyAscii.  A byte buffer is a sequence of numbers       *)
(* 0..255; an ASCII string is given by its character codes.                *)
(***************************************************************************)
HexDigits ==
    <<"0", "1", "2", "3", "4", "5", "6", "7", "8", "9", "a", "b", "c", "d", "e", "f">>

IsHexDigit(ch) == \E d \in 1..16 : HexDigits[d] = ch
HexVal(ch) == (CHOOSE d \in 1..16 : HexDigits[d] = ch) - 1

\* Number.prototype.toString(16): no leading zero
RECURSIVE NumToHex(_)
NumToHex(x) ==
    IF x < 16 THEN <<HexDigits[x + 1]>>
    ELSE NumToHex(x \div 16) \o <<HexDigits[(x % 16) + 1]>>

\* Number(str.charCodeAt(n)).toString(16)
CharToHex(code) == NumToHex(code)

\* ascii_to_hexa: the hex of every character, joined without a delimiter
RECURSIVE ascii_to_hexa(_)
ascii_to_hexa(str) ==
    IF str = <<>> THEN <<>> ELSE CharToHex(Head(str)) \o ascii_to_hexa(Tail(str))

\* Buffer.toString('hex'): two digits for every byte
ByteToHex(b) == <<HexDigits[(b \div 16) + 1], HexDigits[(b % 16) + 1]>>

ToHex(bytes) ==
    [k \in 1..(2 * Len(bytes)) |-> ByteToHex(bytes[(k + 1) \div 2])[2 - (k % 2)]]

\* Buffer.from(s, 'hex'): one byte for every pair of hex digits, up to the
\* first pair that is not hex; a digit left over at the end is dropped
HexDecode(hex) ==
    LET bad == {m \in 1..(Len(hex) \div 2) :
                   ~IsHexDigit(hex[2 * m - 1]) \/ ~IsHexDigit(hex[2 * m])}
        pairs == IF bad = {} THEN Len(hex) \div 2
                 ELSE (CHOOSE m \in bad : \A x \in bad : m <= x) - 1
    IN  [m \in 1..pairs |-> HexVal(hex[2 * m - 1]) * 16 + HexVal(hex[2 * m])]

\* the alphabet of zbase32
ZAlphabet ==
    <<"y", "b", "n", "d", "r", "f", "g", "8", "e", "j", "k", "m", "c",
    "p", "q", "x", "o", "t", "1", "u", "w", "i", "s", "z", "a", "3", "4",
    "5", "h", "7", "6", "9">>

\* bit k of a byte buffer, the highest bit of the first byte being bit 1;
\* 0 past the end
BitAt(bytes, k) ==
    IF k > 8 * Len(bytes) THEN 0
    ELSE (bytes[((k - 1) \div 8) + 1] \div (2 ^ (7 - ((k - 1) % 8)))) % 2

\* zbase32.encode: one character for every five bits
ZEncode(bytes) ==
    [g \in 1..CeilDiv(8 * Len(bytes), 5) |->
        ZAlphabet[1 + 16 * BitAt(bytes, 5 * g - 4) + 8 * BitAt(bytes, 5 * g - 3)
                    + 4 * BitAt(bytes, 5 * g - 2) + 2 * BitAt(bytes, 5 * g - 1)
                    + BitAt(bytes, 5 * g)]]

ZVal(ch) == (CHOOSE d \in 1..32 : ZAlphabet[d] = ch) - 1

\* bit k of a sequence of values that hold width bits each
GroupBitAt(vals, width, k) ==
    (vals[((k - 1) \div width) + 1] \div (2 ^ (width - 1 - ((k - 1) % width)))) % 2

\* the whole bytes that values of width bits each make up
BytesOfGroups(vals, width) ==
    [m \in 1..((width * Len(vals)) \div 8) |->
        128 * GroupBitAt(vals, width, 8 * m - 7) + 64 * GroupBitAt(vals, width, 8 * m - 6)
        + 32 * GroupBitAt(vals, width, 8 * m - 5) + 16 * GroupBitAt(vals, width, 8 * m - 4)
        + 8 * GroupBitAt(vals, width, 8 * m - 3) + 4 * GroupBitAt(vals, width, 8 * m - 2)
        + 2 * GroupBitAt(vals, width, 8 * m - 1) + GroupBitAt(vals, width, 8 * m)]

\* zbase32.decode: the whole bytes that the characters' bits make up
ZDecode(text) == BytesOfGroups([k \in 1..Len(text) |-> ZVal(text[k])], 5)

\* the identities that hold a signing key: this node, and the owner whose
\* node the forwarding proxy hosts; "stranger" is any other key
Keys == {"node", "owner"}
KeyNum(k) == IF k = "node" THEN 1 ELSE IF k = "owner" THEN 2 ELSE 3

\* the compressed public key of an identity (shortened to two bytes)
PubkeyBytes(k) == <<2 + (KeyNum(k) % 2), 17 * KeyNum(k)>>

RECURSIVE SumSeq(_)
SumSeq(q) == IF q = <<>> THEN 0 ELSE Head(q) + SumSeq(Tail(q))

\* "Lightning Signed Message:"
PrefixBytes ==
    HexDecode(
    <<"4", "c", "6", "9", "6", "7", "6", "8", "7", "4", "6", "e", "6",
    "9", "6", "e", "6", "7", "2", "0", "5", "3", "6", "9", "6", "7", "6",
    "e", "6", "5", "6", "4", "2", "0", "4", "d", "6", "5", "7", "3", "7",
    "3", "6", "1", "6", "7", "6", "5", "3", "a">>)

\* the double SHA-256 of a buffer: an ideal hash, known by what was hashed
DoubleSha(bytes) == [alg |-> "sha256d", of |-> bytes]

\* a recoverable ECDSA signature: 64 bytes R || S fixed by key and digest and
\* a recovery id 0 or 1
EcdsaRS(k, digest) ==
    LET seed == 97 * KeyNum(k) + SumSeq(digest.of) + 7 * Len(digest.of)
    IN  [j \in 1..64 |-> (seed + j) % 256]
EcdsaRecid(k, digest) == (KeyNum(k) + Len(digest.of)) % 2

\* secp256k1.recover: the key whose signature over the digest this is; any
\* other input recovers some other key
Recover(digest, rs, recid) ==
    IF \E k \in Keys : EcdsaRS(k, digest) = rs /\ EcdsaRecid(k, digest) = recid
    THEN PubkeyBytes(CHOOSE k \in Keys :
                        EcdsaRS(k, digest) = rs /\ EcdsaRecid(k, digest) = recid)
    ELSE PubkeyBytes("stranger")

\* libhsmd.Handle(1024, 0, null, pld): the signing daemon signs the prefixed
\* message with the node key; its reply, in hex, is a 2-byte frame, the 64
\* bytes R || S and the recovery id
HsmdHandle(msg) ==
    LET d == DoubleSha(PrefixBytes \o msg)
    IN  ToHex(<<0, 123>> \o EcdsaRS("node", d) \o <<EcdsaRecid("node", d)>>)

\* mutant: the signature is cut from the start of the reply
SigBytesOfReply_FromStart(sigBuf) == SubSeq(sigBuf, 1, 64)

\* sigBuf.subarray(2, 66)
SigBytesOfReply(sigBuf) == SubSeq(sigBuf, 3, 66)

\* mutant: the recovery id is written as the daemon gave it
FinalRecid_Raw(sigBuf) == <<sigBuf[67]>>

\* sigBuf.subarray(66, 67), readUIntBE(0, 1) + 31, writeUInt8
FinalRecid(sigBuf) == <<(sigBuf[67] + 31) % 256>>

\* signBuffer under greenlight, from the payload to the zbase32 text
GreenlightSign(msg) ==
    LET sigBuf == HexDecode(HsmdHandle(msg))
    IN  ZEncode(FinalRecid(sigBuf) \o SigBytesOfReply(sigBuf))

\* fullBytes.slice(1)
VerifySigBytes(fullBytes) == SubSeq(fullBytes, 2, Len(fullBytes))

\* fullBytes.slice(0, 1), readUIntBE(0, 1) - 31
VerifyRecid(fullBytes) == fullBytes[1] - 31

\* verifyMessage under greenlight: decode, split, undo the + 31, hash the
\* prefixed message twice and recover the key
GreenlightVerify(hex, sig) ==
    LET fullBytes == ZDecode(sig)
        sigBytes == VerifySigBytes(fullBytes)
        recid == VerifyRecid(fullBytes)
        msgBytes == HexDecode(hex)
        hash == DoubleSha(PrefixBytes \o msgBytes)
    IN  [valid |-> TRUE, pubkey |-> ToHex(Recover(hash, sigBytes, recid))]

\* the SignMessage RPC of a node that holds key k: the zbase32 text of the
\* recovery id + 31 and R || S over the prefixed message
LndSignMessage(k, msg) ==
    LET d == DoubleSha(PrefixBytes \o msg)
    IN  ZEncode(<<EcdsaRecid(k, d) + 31>> \o EcdsaRS(k, d))

\* the VerifyMessage RPC of a node: the key recovered from the signature,
\* valid when it is the key of a node this node knows
LndVerifyMessage(msg, sig) ==
    LET fullBytes == ZDecode(sig)
        pk == Recover(DoubleSha(PrefixBytes \o msg),
                      SubSeq(fullBytes, 2, Len(fullBytes)), fullBytes[1] - 31)
    IN  [valid |-> pk # PubkeyBytes("stranger"), pubkey |-> ToHex(pk)]

\* the inputs of the model
ByteValues == {0, 65, 255}
CharCodes == {0, 10, 15, 16, 65, 127}
SeqsUpTo(S, len) == UNION {[1..m -> S] : m \in 0..len}

\* the node a client handle talks to
NodeOf(client) == IF isProxy(client) THEN "owner" ELSE "node"

\* loadLightning(true, ownerPubkey) up to its first await or its end, for
\* the task sg; phase is "sign" or "verify"
SignLoad(task, phase, ownerPubkey) ==
    /\ IF TakesProxyPath(TRUE, ownerPubkey)
       THEN /\ sg' = [task EXCEPT !.pc = phase \o "Proxy"]
            /\ UNCHANGED <<lightningClient, nextHandle>>
       ELSE \E credsOk \in BOOLEAN :
               LET r == LoadLocal(lightningClient, nextHandle, FALSE, credsOk)
               IN  /\ lightningClient' = r.cache
                   /\ nextHandle' = r.nh
                   /\ sg' = IF r.ok
                            THEN [task EXCEPT !.pc = phase \o "Client", !.client = r.client]
                            ELSE [task EXCEPT !.pc = phase \o "Rejected",
                                              !.err = "cannot read LND macaroon or cert"]
    /\ UNCHANGED <<config, gets, transportVars, lockVars, ld>>

\* signBuffer(msg, ownerPubkey) up to await loadLightning
SignBuffer ==
    /\ sg.pc = "idle"
    /\ \E msg \in SeqsUpTo(ByteValues, MaxMsgLen), ownerPubkey \in BOOLEAN :
          SignLoad([IdleSign EXCEPT !.op = "buffer", !.input = msg, !.owner = ownerPubkey,
                                    !.hex = ToHex(msg), !.msg = msg],
                   "sign", ownerPubkey)

\* signAscii(ascii, ownerPubkey): signMessage(ascii_to_hexa(ascii)), which
\* calls signBuffer(Buffer.from(msg, 'hex'))
SignAscii ==
    /\ sg.pc = "idle"
    /\ \E ascii \in SeqsUpTo(CharCodes, MaxMsgLen), ownerPubkey \in BOOLEAN :
          SignLoad([IdleSign EXCEPT !.op = "ascii", !.input = ascii, !.owner = ownerPubkey,
                                    !.hex = ascii_to_hexa(ascii),
                                    !.msg = HexDecode(ascii_to_hexa(ascii))],
                   "sign", ownerPubkey)

\* signBuffer once it holds the client: the daemon signs at once under
\* greenlight, the SignMessage RPC is issued under LND
SignDispatch(task, client) ==
    IF IS_GREENLIGHT
    THEN [task EXCEPT !.pc = "signed", !.client = client, !.signer = "node",
                      !.sig = GreenlightSign(task.msg)]
    ELSE [task EXCEPT !.pc = "signRpc", !.client = client]

\* verifyMessage once it holds the client
VerifyDispatch(task, client) ==
    IF IS_GREENLIGHT
    THEN LET r == GreenlightVerify(task.hex, task.sig)
         IN  [task EXCEPT !.pc = "verified", !.client = client, !.valid = r.valid,
                          !.pubkey = r.pubkey]
    ELSE [task EXCEPT !.pc = "verifyRpc", !.client = client]

\* loadProxyLightning settles for the sign or verify task
SignProxyResolved ==
    /\ sg.pc \in {"signProxy", "verifyProxy"}
    /\ \E found \in BOOLEAN :
          LET r == ProxyOutcome(found, lightningClient)
          IN  /\ lightningClient' = r.cache
              /\ sg' = IF ~r.ok
                       THEN [sg EXCEPT !.pc = IF sg.pc = "signProxy" THEN "signRejected"
                                              ELSE "verifyRejected",
                                       !.err = r.err]
                       ELSE IF sg.pc = "signProxy" THEN SignDispatch(sg, r.client)
                       ELSE VerifyDispatch(sg, r.client)
    /\ UNCHANGED <<config, nextHandle, gets, transportVars, lockVars, ld>>

\* loadLightning returned without the proxy
SignClientReady ==
    /\ sg.pc \in {"signClient", "verifyClient"}
    /\ sg' = IF sg.pc = "signClient" THEN SignDispatch(sg, sg.client)
             ELSE VerifyDispatch(sg, sg.client)
    /\ UNCHANGED <<config, lightningClient, nextHandle, gets, transportVars, lockVars, ld>>

\* what an RPC calls back with: err is "" when the error is null, has tells
\* whether the reply carries the signature (the public key)
RpcReplies == [err : {"", "rpc error"}, has : BOOLEAN]

\* mutant: only an error rejects
OnSignReply_ErrOnly(task, reply, sig) ==
    IF reply.err # ""
    THEN [task EXCEPT !.pc = "signRejected", !.err = reply.err, !.reply = reply]
    ELSE [task EXCEPT !.pc = "signed", !.signer = NodeOf(task.client), !.reply = reply,
                      !.sig = IF reply.has THEN sig ELSE <<>>]

\* if (err || !sig || !sig.signature) reject(err) else resolve(sig.signature)
OnSignReply(task, reply, sig) ==
    IF reply.err # "" \/ ~reply.has \/ sig = <<>>
    THEN [task EXCEPT !.pc = "signRejected", !.err = reply.err, !.reply = reply]
    ELSE [task EXCEPT !.pc = "signed", !.signer = NodeOf(task.client), !.reply = reply,
                      !.sig = sig]

\* if (err || !res || !res.pubkey) reject(err) else resolve(res)
OnVerifyReply(task, reply, r) ==
    IF reply.err # "" \/ ~reply.has \/ r.pubkey = <<>>
    THEN [task EXCEPT !.pc = "verifyRejected", !.err = reply.err, !.reply = reply]
    ELSE [task EXCEPT !.pc = "verified", !.valid = r.valid, !.pubkey = r.pubkey,
                      !.reply = reply]

\* the SignMessage RPC calls back: an error, a reply without a signature,
\* or the signature of the node the client talks to
SignReply ==
    /\ sg.pc = "signRpc"
    /\ \E reply \in RpcReplies :
          sg' = OnSignReply(sg, reply, LndSignMessage(NodeOf(sg.client), sg.msg))
    /\ UNCHANGED <<config, lightningClient, nextHandle, gets, transportVars, lockVars, ld>>

\* verifyBytes(msg, sig) for a signed buffer, verifyAscii(ascii, sig,
\* ownerPubkey) for a signed string: verifyMessage(hex, sig, ownerPubkey) up
\* to await loadLightning
VerifyStart ==
    /\ sg.pc = "signed"
    /\ \E ownerPubkey \in BOOLEAN :
          /\ sg.op = "buffer" => ~ownerPubkey
          /\ SignLoad([sg EXCEPT !.hex = IF sg.op = "buffer" THEN ToHex(sg.input)
                                         ELSE ascii_to_hexa(sg.input)],
                      "verify", ownerPubkey)

\* the VerifyMessage RPC calls back
VerifyReply ==
    /\ sg.pc = "verifyRpc"
    /\ \E reply \in RpcReplies :
          sg' = OnVerifyReply(sg, reply, LndVerifyMessage(HexDecode(sg.hex), sg.sig))
    /\ UNCHANGED <<config, lightningClient, nextHandle, gets, transportVars, lockVars, ld>>

InitSign == Init

NextSign ==
    \/ SignBuffer
    \/ SignAscii
    \/ SignProxyResolved
    \/ SignClientReady
    \/ SignReply
    \/ VerifyStart
    \/ VerifyReply

SpecSign == InitSign /\ [][NextSign]_vars

(***************************************************************************)
(* Claims about signing and verifying, checked under SpecSign.             *)
(***************************************************************************)
\* C17: under each backend, for every byte buffer b, verifying the signature
\* that signing b produced resolves with valid = true and with the public
\* key of the identity that signed.
C17_SignVerify ==
    sg.pc = "verified" =>
        /\ sg.valid
        /\ sg.pubkey = ToHex(PubkeyBytes(sg.signer))
        /\ sg.signer \in Keys

C17_Witness ==
    /\ sg.pc = "verified"
    /\ IS_GREENLIGHT
    /\ sg.op = "buffer" /\ sg.input = <<255, 65>>
    /\ Len(sg.sig) = 104
    /\ sg.valid /\ sg.pubkey = ToHex(PubkeyBytes("node"))

\* C18: signAscii and verifyAscii turn every string into hex with exactly
\* one two-digit pair per character and no delimiter: the hex text is twice
\* as long as the string and decodes back to the string's bytes, for every
\* character code 0..127.
C18_Original ==
    sg.op = "ascii" =>
        /\ Len(sg.hex) = 2 * Len(sg.input)
        /\ HexDecode(sg.hex) = sg.input
        /\ sg.msg = sg.input

(***************************************************************************)
(* The LDAT token codec (utils/ldat): characters, base64, the URL coding   *)
(* of metadata.                                                            *)
(***************************************************************************)
\* the printable ASCII characters, code 32 first; the grave accent, code
\* 96, appears under its name
AsciiChars ==
    <<" ", "!", "\"", "#", "$", "%", "&", "'", "(", ")", "*", "+", ",",
      "-", ".", "/", "0", "1", "2", "3", "4", "5", "6", "7", "8", "9",
      ":", ";", "<", "=", ">", "?", "@", "A", "B", "C", "D", "E", "F",
      "G", "H", "I", "J", "K", "L", "M", "N", "O", "P", "Q", "R", "S",
      "T", "U", "V", "W", "X", "Y", "Z", "[", "\\", "]", "^", "_", "grave",
      "a", "b", "c", "d", "e", "f", "g", "h", "i", "j", "k", "l", "m",
      "n", "o", "p", "q", "r", "s", "t", "u", "v", "w", "x", "y", "z",
      "{", "|", "}", "~">>

\* String.prototype.charCodeAt for a one-character string
CharCode(ch) == 31 + (CHOOSE c \in 1..Len(AsciiChars) : AsciiChars[c] = ch)

\* Buffer.from(str, 'ascii')
AsciiBytes(str) == [k \in 1..Len(str) |-> CharCode(str[k])]

\* buf.toString('ascii'): the low seven bits of every byte
AsciiString(bytes) ==
    [k \in 1..Len(bytes) |->
        IF (bytes[k] % 128) \in 32..126 THEN AsciiChars[(bytes[k] % 128) - 31] ELSE "?"]

\* a > b for strings: the first differing character decides, a proper
\* prefix is smaller
RECURSIVE StrGreater(_, _)
StrGreater(a, b) ==
    IF a = <<>> THEN FALSE
    ELSE IF b = <<>> THEN TRUE
    ELSE IF Head(a) = Head(b) THEN StrGreater(Tail(a), Tail(b))
    ELSE CharCode(Head(a)) > CharCode(Head(b))

\* the alphabet of base64
B64Alphabet ==
    <<"A", "B", "C", "D", "E", "F", "G", "H", "I", "J", "K", "L", "M",
      "N", "O", "P", "Q", "R", "S", "T", "U", "V", "W", "X", "Y", "Z",
      "a", "b", "c", "d", "e", "f", "g", "h", "i", "j", "k", "l", "m",
      "n", "o", "p", "q", "r", "s", "t", "u", "v", "w", "x", "y", "z",
      "0", "1", "2", "3", "4", "5", "6", "7", "8", "9", "+", "/">>

\* buf.toString('base64'): one character for every six bits, "=" up to a
\* multiple of four characters
B64Encode(bytes) ==
    [g \in 1..(4 * CeilDiv(Len(bytes), 3)) |->
        IF g > CeilDiv(8 * Len(bytes), 6) THEN "="
        ELSE B64Alphabet[1 + 32 * BitAt(bytes, 6 * g - 5) + 16 * BitAt(bytes, 6 * g - 4)
                           + 8 * BitAt(bytes, 6 * g - 3) + 4 * BitAt(bytes, 6 * g - 2)
                           + 2 * BitAt(bytes, 6 * g - 1) + BitAt(bytes, 6 * g)]]

\* urlBase64: "/" becomes "_" and "+" becomes "-"
urlBase64(bytes) ==
    LET t == B64Encode(bytes)
    IN  [k \in 1..Len(t) |-> IF t[k] = "/" THEN "_" ELSE IF t[k] = "+" THEN "-" ELSE t[k]]

\* the value of a base64 character; "-" and "_" are read as "+" and "/"
IsB64Char(ch) == ch \in {"-", "_"} \/ \E d \in 1..64 : B64Alphabet[d] = ch
B64Val(ch) ==
    IF ch = "-" THEN 62 ELSE IF ch = "_" THEN 63
    ELSE (CHOOSE d \in 1..64 : B64Alphabet[d] = ch) - 1

\* the characters of a base64 text up to its padding
RECURSIVE B64Body(_)
B64Body(text) ==
    IF text = <<>> \/ ~IsB64Char(Head(text)) THEN <<>>
    ELSE <<Head(text)>> \o B64Body(Tail(text))

\* Buffer.from(text, 'base64'): the whole bytes that the characters make up
B64Decode(text) ==
    LET body == B64Body(text)
    IN  BytesOfGroups([k \in 1..Len(body) |-> B64Val(body[k])], 6)

\* the characters encodeURIComponent leaves as they are
UriUnreserved ==
    <<"A", "B", "C", "D", "E", "F", "G", "H", "I", "J", "K", "L", "M",
      "N", "O", "P", "Q", "R", "S", "T", "U", "V", "W", "X", "Y", "Z",
      "a", "b", "c", "d", "e", "f", "g", "h", "i", "j", "k", "l", "m",
      "n", "o", "p", "q", "r", "s", "t", "u", "v", "w", "x", "y", "z",
      "0", "1", "2", "3", "4", "5", "6", "7", "8", "9", "-", "_", ".",
      "!", "~", "*", "'", "(", ")">>

UpperHexDigits ==
    <<"0", "1", "2", "3", "4", "5", "6", "7", "8", "9", "A", "B", "C",
      "D", "E", "F">>

\* encodeURIComponent of an ASCII string: %XX for every other character
RECURSIVE encodeURIComponent(_)
encodeURIComponent(str) ==
    IF str = <<>> THEN <<>>
    ELSE (IF \E u \in 1..Len(UriUnreserved) : UriUnreserved[u] = Head(str)
          THEN <<Head(str)>>
          ELSE <<"%", UpperHexDigits[(CharCode(Head(str)) \div 16) + 1],
                 UpperHexDigits[(CharCode(Head(str)) % 16) + 1]>>)
         \o encodeURIComponent(Tail(str))

IsUpperHex(ch) == \E d \in 1..16 : UpperHexDigits[d] = ch \/ HexDigits[d] = ch
UpperHexVal(ch) == (CHOOSE d \in 1..16 : UpperHexDigits[d] = ch \/ HexDigits[d] = ch) - 1

\* decodeURIComponent of what encodeURIComponent wrote
RECURSIVE decodeURIComponent(_)
decodeURIComponent(str) ==
    IF str = <<>> THEN <<>>
    ELSE IF Head(str) = "%" /\ Len(str) >= 3 /\ IsUpperHex(str[2]) /\ IsUpperHex(str[3])
    THEN AsciiString(<<16 * UpperHexVal(str[2]) + UpperHexVal(str[3])>>)
         \o decodeURIComponent(SubSeq(str, 4, Len(str)))
    ELSE <<Head(str)>> \o decodeURIComponent(Tail(str))

\* a metadata value: a number or a string
Num(x) == [t |-> "num", n |-> x, s |-> <<>>]
Str(x) == [t |-> "str", n |-> 0, s |-> x]

\* String(value)
ValueText(v) == IF v.t = "num" THEN ToStr(v.n) ELSE v.s

\* the position at which a string goes into a sorted list: after every
\* element it is greater than, (a, b) => (a > b ? 1 : -1)
RECURSIVE SortInsert(_, _)
SortInsert(x, sorted) ==
    IF sorted = <<>> THEN <<x>>
    ELSE IF StrGreater(x, Head(sorted)) THEN <<Head(sorted)>> \o SortInsert(x, Tail(sorted))
    ELSE <<x>> \o sorted

\* mutant: the entries stay in insertion order
SortStrings_Unsorted(q) == q

\* str.sort((a, b) => (a > b ? 1 : -1))
RECURSIVE SortStrings(_)
SortStrings(q) == IF q = <<>> THEN <<>> ELSE SortInsert(Head(q), SortStrings(Tail(q)))

\* str.join(sep)
RECURSIVE Join(_, _)
Join(q, sep) ==
    IF q = <<>> THEN <<>>
    ELSE IF Len(q) = 1 THEN q[1]
    ELSE q[1] \o sep \o Join(Tail(q), sep)

\* serializeMeta: a mapping is the sequence of its entries [k, v] in
\* insertion order, the order in which for..in visits them
serializeMeta(obj) ==
    Join(SortStrings([e \in 1..Len(obj) |->
                        encodeURIComponent(obj[e].k) \o <<"=">>
                        \o encodeURIComponent(ValueText(obj[e].v))]),
         <<"&">>)

\* String.prototype.split(sep) for a one-character separator
RECURSIVE Split(_, _)
Split(str, sep) ==
    LET seps == {k \in 1..Len(str) : str[k] = sep}
    IN  IF seps = {} THEN <<str>>
        ELSE LET at == CHOOSE k \in seps : \A x \in seps : k <= x
             IN  <<SubSeq(str, 1, at - 1)>> \o Split(SubSeq(str, at + 1, Len(str)), sep)

\* the digits a string starts with
RECURSIVE DigitPrefix(_)
DigitPrefix(str) ==
    IF str = <<>> \/ ~IsDigits(<<Head(str)>>) THEN <<>>
    ELSE <<Head(str)>> \o DigitPrefix(Tail(str))

RECURSIVE HexPrefix(_)
HexPrefix(str) ==
    IF str = <<>> \/ ~IsUpperHex(Head(str)) THEN <<>>
    ELSE <<Head(str)>> \o HexPrefix(Tail(str))

RECURSIVE HexToNum(_, _)
HexToNum(str, acc) ==
    IF str = <<>> THEN acc ELSE HexToNum(Tail(str), 16 * acc + UpperHexVal(Head(str)))

\* parseInt(str) without a radix: the number its leading digits spell, hex
\* after a 0x; nan when there is no digit
parseInt(str) ==
    IF Len(str) >= 2 /\ str[1] = "0" /\ str[2] \in {"x", "X"}
    THEN LET h == HexPrefix(SubSeq(str, 3, Len(str)))
         IN  [nan |-> h = <<>>, n |-> HexToNum(h, 0)]
    ELSE LET d == DigitPrefix(str)
         IN  [nan |-> d = <<>>, n |-> IF d = <<>> THEN 0 ELSE ParseNat(d)]

\* (typeof v === 'string' && parseInt(v)) || v
Coerce(text) ==
    LET p == parseInt(text)
    IN  IF ~p.nan /\ p.n # 0 THEN Num(p.n) ELSE Str(text)

\* JSON.parse accepts '{"' + str with "," for & and ":" for = + '"}': every
\* entry has exactly one "=", and no quote or backslash stands in the text
JsonParses(str) ==
    /\ \A p \in 1..Len(str) : str[p] \notin {"\"", "\\"}
    /\ LET entries == Split(str, "&")
       IN  \A e \in 1..Len(entries) : Len(Split(entries[e], "=")) = 2

\* decodeURIComponent throws on a "%" that two hex digits do not follow
UriMalformed(str) ==
    \E p \in 1..Len(str) :
        /\ str[p] = "%"
        /\ ~(/\ p + 2 <= Len(str)
             /\ \A q \in {p + 1, p + 2} : IsUpperHex(str[q]) \/ IsHexDigit(str[q]))

\* deserializeMeta throws what JSON.parse or its reviver throws
deserializeMetaThrows(str) == Len(str) > 2 /\ (~JsonParses(str) \/ UriMalformed(str))

\* deserializeMeta: the entries in the order of the text; JSON.parse keeps
\* the keys as written and hands the values to decodeURIComponent
deserializeMeta(str) ==
    IF Len(str) <= 2 THEN <<>>
    ELSE LET entries == Split(str, "&")
         IN  [e \in 1..Len(entries) |->
                LET kv == Split(entries[e], "=")
                IN  [k |-> kv[1],
                     v |-> Coerce(decodeURIComponent(IF Len(kv) > 1 THEN kv[2] ELSE <<>>))]]

(***************************************************************************)
(* Building and parsing tokens: tokenFromTerms, startLDAT, parseLDAT.      *)
(***************************************************************************)
\* startLDAT: the five fields as bytes, and as text joined by "."
startLDAT(host, muid, pk, exp, meta) ==
    LET hostBuf == AsciiBytes(host)
        muidBuf == B64Decode(muid)
        pkBuf == IF pk # <<>> THEN B64Decode(pk) ELSE <<>>
        expBuf == IF exp # 0 THEN HexDecode(NumToHex(exp)) ELSE <<>>
        metaBuf == AsciiBytes(serializeMeta(meta))
    IN  [terms |-> Join(<<urlBase64(hostBuf), urlBase64(muidBuf), urlBase64(pkBuf),
                          urlBase64(expBuf), urlBase64(metaBuf)>>, <<".">>),
         bytes |-> hostBuf \o muidBuf \o pkBuf \o expBuf \o metaBuf]

\* tokenFromTerms: host || config.media_host || ''
TheHost(host, mediaHost) == IF host # <<>> THEN host ELSE mediaHost

\* ttl: number | null. A ttl is <<>> when it is null or absent and <<t>>
\* when it is the number t; it counts as true when it is a number other
\* than 0
NoTtl == <<>>
Truthy(ttl) == ttl # NoTtl /\ ttl[1] # 0

\* mutant: the expiry is the current time plus the requested ttl
Expiry_AddsTtl(ttl, nowSec) == IF Truthy(ttl) THEN nowSec + ttl[1] ELSE 0

\* tokenFromTerms: ttl ? now + 60 * 60 * 24 * 365 : 0
Expiry(ttl, nowSec) == IF Truthy(ttl) THEN nowSec + 60 * 60 * 24 * 365 ELSE 0

\* tokenFromTerms up to the signing
TokenStart(host, mediaHost, muid, pubkey, ttl, nowSec, meta) ==
    startLDAT(TheHost(host, mediaHost), muid, urlBase64(HexDecode(pubkey)),
              Expiry(ttl, nowSec), meta)

\* what signBuffer resolves with for the token's bytes
TokenSignature(bytes) ==
    IF IS_GREENLIGHT THEN GreenlightSign(bytes) ELSE LndSignMessage("node", bytes)

\* mutant: the signature is left out of the token
SignedToken_Unsigned(terms, sig) == terms

\* ldat.terms + '.' + urlBase64FromBytes(zbase32.decode(sig))
SignedToken(terms, sig) == terms \o <<".">> \o urlBase64(ZDecode(sig))

\* termKeys: the name and the decoder of each field, in field order
TermKeyNames == <<"host", "muid", "pubkey", "ts", "meta", "sig">>

\* mutant: an empty field is decoded like any other
Present_InRange(a, f) == f <= Len(a)

\* if (a[i]): the field is there and is not the empty string
Present(a, f) == f <= Len(a) /\ a[f] # <<>>

\* parseLDAT: a field that is present and not empty is decoded by the
\* function of its place; any other field has no entry. err tells that a
\* decoder threw, and parseLDAT with it
parseLDAT(ldat) ==
    LET a == Split(ldat, ".")
        present(f) == Present(a, f)
        buf(f) == B64Decode(a[f])
    IN  [has |-> {TermKeyNames[f] : f \in {g \in 1..6 : present(g)}},
         err |-> present(5) /\ deserializeMetaThrows(AsciiString(buf(5))),
         host |-> IF present(1) THEN AsciiString(buf(1)) ELSE <<>>,
         muid |-> IF present(2) THEN urlBase64(buf(2)) ELSE <<>>,
         pubkey |-> IF present(3) THEN ToHex(buf(3)) ELSE <<>>,
         ts |-> IF present(4) THEN parseInt(<<"0", "x">> \o ToHex(buf(4))).n ELSE 0,
         meta |-> IF present(5) /\ AsciiString(buf(5)) # <<>>
                  THEN deserializeMeta(AsciiString(buf(5))) ELSE <<>>,
         sig |-> IF present(6) THEN urlBase64(buf(6)) ELSE <<>>]

\* the inputs of the model
LdatHosts == {<<>>, <<"m", ".", "i", "o">>}
LdatMediaHosts == {<<>>, <<"h", ".", "c", "o">>}
LdatMuids == {<<"-", "_", "8", "=">>}
LdatPubkeys == {<<>>, <<"0", "3", "7", "3", "c", "a">>}
LdatTtls == {<<0>>, <<31536000>>}
LdatTimes == {1700000000}
MetaPool ==
    {[k |-> <<"a">>, v |-> Num(2)], [k |-> <<"b">>, v |-> Num(1)],
     [k |-> <<"a", "1">>, v |-> Num(3)],
     [k |-> <<"d", "i", "m">>, v |-> Str(<<"1", "5", "0", "0", "x", "1", "3", "0", "0">>)],
     [k |-> <<"n">>, v |-> Num(0)]}

\* the mappings: entries with distinct keys in every insertion order
Metas ==
    {m \in SeqsUpTo(MetaPool, MaxMeta) :
        \A e, f \in 1..Len(m) : e # f => m[e].k # m[f].k}

\* tokenFromTerms(terms) up to await Lightning.signBuffer, or to its return
\* when there is no public key to sign for, for terms drawn from the given
\* sets
LdatBuildFrom(hosts, mediaHosts, pubkeys, ttls, metas) ==
    /\ ld.pc = "idle"
    /\ \E host \in hosts, mediaHost \in mediaHosts, muid \in LdatMuids,
          pubkey \in pubkeys, ttl \in ttls, nowSec \in LdatTimes, meta \in metas :
          LET t == TokenStart(host, mediaHost, muid, pubkey, ttl, nowSec, meta)
          IN  ld' = [IdleLdat EXCEPT
                        !.pc = IF pubkey # <<>> THEN "signing" ELSE "built",
                        !.host = host, !.mediaHost = mediaHost, !.muid = muid,
                        !.pubkey = pubkey, !.ttl = ttl, !.nowSec = nowSec, !.meta = meta,
                        !.metaStr = serializeMeta(meta), !.exp = Expiry(ttl, nowSec),
                        !.terms = t.terms, !.bytes = t.bytes,
                        !.signs = IF pubkey # <<>> THEN 1 ELSE 0,
                        !.token = IF pubkey # <<>> THEN <<>> ELSE t.terms]
    /\ UNCHANGED <<config, lightningClient, nextHandle, gets, transportVars, lockVars, sg>>

LdatBuild == LdatBuildFrom(LdatHosts, LdatMediaHosts, LdatPubkeys, LdatTtls, Metas)

\* signBuffer settles: the signature becomes the sixth field, or the error
\* is thrown on
LdatSigned ==
    /\ ld.pc = "signing"
    /\ \E ok \in BOOLEAN :
          ld' = IF ok
                THEN [ld EXCEPT !.pc = "built", !.signed = TRUE,
                                !.token = SignedToken(ld.terms, TokenSignature(ld.bytes))]
                ELSE [ld EXCEPT !.pc = "failed"]
    /\ UNCHANGED <<config, lightningClient, nextHandle, gets, transportVars, lockVars, sg>>

\* parseLDAT(token)
LdatParse ==
    /\ ld.pc = "built"
    /\ ld' = [ld EXCEPT !.pc = "parsed", !.parsed = parseLDAT(ld.token)]
    /\ UNCHANGED <<config, lightningClient, nextHandle, gets, transportVars, lockVars, sg>>

\* tokenFromTerms once more with the same terms at the same time
LdatRepeat ==
    /\ ld.pc = "parsed"
    /\ LET t == TokenStart(ld.host, ld.mediaHost, ld.muid, ld.pubkey, ld.ttl, ld.nowSec,
                           ld.meta)
       IN  ld' = [ld EXCEPT !.pc = "repeated",
                            !.signs = IF ld.pubkey # <<>> THEN ld.signs + 1 ELSE ld.signs,
                            !.token2 = IF ld.pubkey # <<>>
                                       THEN SignedToken(t.terms, TokenSignature(t.bytes))
                                       ELSE t.terms]
    /\ UNCHANGED <<config, lightningClient, nextHandle, gets, transportVars, lockVars, sg>>

\* the token codec does not read the proxy setting
InitLdat == Init /\ ~config.proxy

NextLdat ==
    \/ LdatBuild
    \/ LdatSigned
    \/ LdatParse
    \/ LdatRepeat

SpecLdat == InitLdat /\ [][NextLdat]_vars

(***************************************************************************)
(* Claims about the token codec, checked under SpecLdat.                   *)
(***************************************************************************)
\* two mappings hold the same entries
SameMapping(m1, m2) == {m1[e] : e \in 1..Len(m1)} = {m2[e] : e \in 1..Len(m2)}

\* C19: for every term set (host, media id, requester key, expiry,
\* metadata) parsing the token built from it returns the same values for the
\* fields other than the signature (a field without an entry counts as its
\* empty value), and building again from the same terms at the same time
\* gives the same token text.
C19_Original ==
    /\ ld.pc \in {"parsed", "repeated"} =>
          /\ ld.parsed.host = TheHost(ld.host, ld.mediaHost)
          /\ ld.parsed.muid = ld.muid
          /\ ld.parsed.pubkey = ld.pubkey
          /\ ld.parsed.ts = ld.exp
          /\ SameMapping(ld.parsed.meta, ld.meta)
    /\ ld.pc = "repeated" => ld.token2 = ld.token

\* C20: serializeMeta does not depend on the insertion order of the keys:
\* every reordering of a mapping's entries serializes to the same text, and
\* {b: 1, a: 2} and {a: 2, b: 1} both give a=2&b=1.
C20_OrderIndependent ==
    ld.pc # "idle" =>
        /\ \A perm \in Permutations(1..Len(ld.meta)) :
              serializeMeta([e \in 1..Len(ld.meta) |-> ld.meta[perm[e]]]) = ld.metaStr
        /\ SameMapping(ld.meta, <<[k |-> <<"a">>, v |-> Num(2)], [k |-> <<"b">>, v |-> Num(1)]>>)
              => ld.metaStr = <<"a", "=", "2", "&", "b", "=", "1">>

C20_Witness ==
    /\ ld.pc = "built"
    /\ ld.meta = <<[k |-> <<"b">>, v |-> Num(1)], [k |-> <<"a">>, v |-> Num(2)]>>
    /\ ld.metaStr = <<"a", "=", "2", "&", "b", "=", "1">>

\* the URL-encoded keys of a serialized mapping, in the order of the text
\* (encodeURIComponent leaves no "&" and no "=" inside a key or a value)
SerializedKeys(str) ==
    IF str = <<>> THEN <<>>
    ELSE LET entries == Split(str, "&")
         IN  [e \in 1..Len(entries) |-> Split(entries[e], "=")[1]]

\* C21: in the serialized metadata text the entries stand in ascending
\* order of their URL-encoded keys, for every set of keys: no entry's key is
\* greater than the key of an entry after it.
C21_Original ==
    ld.pc # "idle" =>
        LET keys == SerializedKeys(ld.metaStr)
        IN  \A e, f \in 1..Len(keys) : e < f => ~StrGreater(keys[e], keys[f])

\* C22: deserializing turns a value into a number exactly when the whole
\* value is an integer (0 included) and leaves every other value the string
\* it was, so that deserializing the serialized text of a mapping gives the
\* mapping back.
C22_Original ==
    ld.pc # "idle" =>
        LET back == deserializeMeta(ld.metaStr)
        IN  /\ \A e \in 1..Len(ld.meta) :
                  LET text == ValueText(ld.meta[e].v)
                  IN  Coerce(text) = IF IsDigits(text) THEN Num(ParseNat(text)) ELSE Str(text)
            /\ SameMapping(back, ld.meta)

(***************************************************************************)
(* The terms of a token one by one: every kind of ttl, a public key that   *)
(* is not hex, and tokens cut after any number of fields.                  *)
(***************************************************************************)
TermsHosts == {<<>>, <<"m", ".", "i", "o">>}
TermsPubkeys == {<<>>, <<"0", "3", "7", "3", "c", "a">>, <<"z", "z">>}
TermsTtls == {NoTtl, <<0>>, <<-1>>, <<60>>, <<31536000>>}
TermsMetas ==
    {<<>>, <<[k |-> <<"d", "i", "m">>, v |-> Str(<<"1", "5", "0", "0", "x", "1", "3", "0", "0">>)]>>}

LdatBuildTerms == LdatBuildFrom(TermsHosts, {<<>>}, TermsPubkeys, TermsTtls, TermsMetas)

\* the first k fields of a token
CutFields(token, k) == Join(SubSeq(Split(token, "."), 1, k), <<".">>)

\* parseLDAT of a token cut after k of its fields
LdatParseCut ==
    /\ ld.pc = "built"
    /\ \E k \in 0..Len(Split(ld.token, ".")) :
          ld' = [ld EXCEPT !.pc = "cut", !.cut = k,
                           !.parsed = parseLDAT(CutFields(ld.token, k))]
    /\ UNCHANGED <<config, lightningClient, nextHandle, gets, transportVars, lockVars, sg>>

NextTerms ==
    \/ LdatBuildTerms
    \/ LdatSigned
    \/ LdatParseCut

SpecTerms == InitLdat /\ [][NextTerms]_vars

\* C23: the expiry of a token is the current time plus 365 * 24 * 3600
\* seconds exactly when the ttl is greater than zero, whatever its size, and
\* is 0, with an empty expiry field, for every other ttl: zero, negative or
\* absent.
C23_Original ==
    ld.pc # "idle" =>
        /\ ld.exp = IF ld.ttl # NoTtl /\ ld.ttl[1] > 0
                    THEN ld.nowSec + 365 * 24 * 3600 ELSE 0
        /\ ~(ld.ttl # NoTtl /\ ld.ttl[1] > 0) => Split(ld.terms, ".")[4] = <<>>

\* the number of dot-separated fields of a token
NumFields(token) == Len(Split(token, "."))

\* C24: tokenFromTerms returns a token of six fields exactly when the
\* requester's public key is not empty, after one call of signBuffer, and
\* the unsigned token of five fields after no call of signBuffer when it is
\* empty; when signBuffer fails, tokenFromTerms fails and there is no token.
C24_SignedExactlyOnce ==
    /\ ld.pc \in {"built", "cut"} =>
          /\ NumFields(ld.token) = IF ld.pubkey # <<>> THEN 6 ELSE 5
          /\ ld.signs = IF ld.pubkey # <<>> THEN 1 ELSE 0
          /\ ld.signed <=> ld.pubkey # <<>>
          /\ ld.pubkey = <<>> => ld.token = ld.terms
    /\ ld.pc \in {"signing", "failed"} =>
          /\ ld.pubkey # <<>>
          /\ ld.signs = 1
          /\ ld.token = <<>>

C24_Witness ==
    /\ ld.pc = "built"
    /\ ld.pubkey = <<"z", "z">>
    /\ ld.signs = 1
    /\ NumFields(ld.token) = 6
    /\ NumFields(ld.terms) = 5

ChanOps == {"openChannel", "channelBalance", "pendingChannels", "getChanInfo"}

\* the tryProxy argument the operation hands to loadLightning: none in
\* openChannel, tryProxy === false ? false : true in getChanInfo, true in
\* the other two
ChanTryProxy(op, tryProxy) ==
    IF op = "openChannel" THEN FALSE
    ELSE IF op = "getChanInfo" THEN tryProxy
    ELSE TRUE

\* the ownerPubkey argument handed to loadLightning: only channelBalance and
\* pendingChannels have one
ChanOwner(op, ownerPubkey) == op \in {"channelBalance", "pendingChannels"} /\ ownerPubkey

\* mutant: the request is sent whatever the backend
AfterLoad_AlwaysRpc(c, lightning) ==
    [c EXCEPT !.pc = "rpc", !.loadOk = TRUE, !.client = lightning, !.rpcs = 1]

\* the operation once it holds the client: under greenlight pendingChannels
\* returns the structure with no channel and the others return nothing;
\* otherwise getChanInfo refuses a missing chan_id and the request goes out
AfterLoad(c, lightning) ==
    IF isGL(lightning)
    THEN [c EXCEPT !.pc = "settled", !.loadOk = TRUE, !.client = lightning,
                   !.result = IF c.op = "pendingChannels" THEN "empty" ELSE "void"]
    ELSE IF c.op = "getChanInfo" /\ c.chanId = 0
    THEN [c EXCEPT !.pc = "settled", !.loadOk = TRUE, !.client = lightning,
                   !.result = "rejected", !.err = "no chan id"]
    ELSE [c EXCEPT !.pc = "rpc", !.loadOk = TRUE, !.client = lightning, !.rpcs = 1]

\* a call of one of the operations, up to await loadLightning
ChanCall ==
    /\ chan.pc \in {"idle", "settled"}
    /\ chan.count < MaxOps
    /\ \E op \in ChanOps, ownerPubkey \in BOOLEAN, tryProxy \in BOOLEAN, chanId \in {0, 7},
          credsOk \in BOOLEAN :
          LET c == [IdleChan EXCEPT !.pc = "awaitClient", !.op = op,
                                    !.ownerPubkey = ChanOwner(op, ownerPubkey),
                                    !.chanId = IF op = "getChanInfo" THEN chanId ELSE 0,
                                    !.count = chan.count + 1]
          IN  IF TakesProxyPath(ChanTryProxy(op, tryProxy), ChanOwner(op, ownerPubkey))
              THEN /\ chan' = [c EXCEPT !.via = "proxy"]
                   /\ UNCHANGED <<lightningClient, nextHandle>>
              ELSE LET r == LoadLocal(lightningClient, nextHandle, FALSE, credsOk)
                   IN  /\ chan' = [c EXCEPT !.via = "local", !.loadOk = r.ok,
                                            !.client = r.client]
                       /\ lightningClient' = r.cache
                       /\ nextHandle' = r.nh
    /\ UNCHANGED <<config, now, routerClient, msgVars, calls, lastEvent, pg, gets,
                   lockVars, sg, ld, ldr, bdg>>

\* loadProxyLightning settles: loadLightning assigns its result to the cached
\* handle and throws when there is none
ChanProxyResolved ==
    /\ chan.pc = "awaitClient"
    /\ chan.via = "proxy"
    /\ \E found \in BOOLEAN :
          LET r == ProxyOutcome(found, lightningClient)
          IN  /\ lightningClient' = r.cache
              /\ chan' = IF r.ok THEN AfterLoad(chan, r.client)
                         ELSE [chan EXCEPT !.pc = "settled", !.result = "threw",
                                           !.err = r.err]
    /\ UNCHANGED <<config, now, routerClient, nextHandle, msgVars, calls, lastEvent, pg,
                   gets, lockVars, sg, ld, ldr, bdg>>

\* loadLightning returned the cached or a new client, or threw
ChanClientReady ==
    /\ chan.pc = "awaitClient"
    /\ chan.via = "local"
    /\ chan' = IF chan.loadOk THEN AfterLoad(chan, chan.client)
               ELSE [chan EXCEPT !.pc = "settled", !.result = "threw",
                                 !.err = "no lightning client"]
    /\ UNCHANGED <<config, now, lightningClient, routerClient, nextHandle, msgVars, calls,
                   lastEvent, pg, gets, lockVars, sg, ld, ldr, bdg>>

\* the callback of the request: err == null && response resolves
ChanReply ==
    /\ chan.pc = "rpc"
    /\ \E ok \in BOOLEAN :
          chan' = IF ok THEN [chan EXCEPT !.pc = "settled", !.result = "response"]
                  ELSE [chan EXCEPT !.pc = "settled", !.result = "rejected", !.err = "err"]
    /\ UNCHANGED <<config, now, lightningClient, routerClient, nextHandle, msgVars, calls,
                   lastEvent, pg, gets, lockVars, sg, ld, ldr, bdg>>

NextChannel ==
    \/ ChanCall
    \/ ChanProxyResolved
    \/ ChanClientReady
    \/ ChanReply

SpecChannel == Init /\ [][NextChannel]_vars

TransportFor(lightning) ==
    IF isProxy(lightning) THEN "proxy"
    ELSE IF IS_GREENLIGHT THEN "gl"
    ELSE "router"

\* what loadLightning and loadRouter throw
LoadErrors == {"no lightning client", "cannot read LND macaroon or cert"}

StreamOpts ==
    {[dest |-> Dest(PUBKEY_HEX_LENGTH), amt |-> MIN_SAT_AMOUNT + 2, hasData |-> TRUE,
      data |-> Payload(1)]}

\* keysend(opts, ownerPubkey) up to await loadLightning
KeysendCall ==
    /\ pc = "idle"
    /\ Len(calls) < MaxCalls
    /\ \E o \in StreamOpts, ownerPubkey \in BOOLEAN, credsOk \in BOOLEAN :
          LET s == KeysendStart(o, Len(calls), ownerPubkey, credsOk)
          IN  /\ calls' = Append(calls, s.call)
              /\ lightningClient' = s.cache
              /\ nextHandle' = s.nh
    /\ UNCHANGED extVars
    /\ UNCHANGED <<config, now, routerClient, msgVars, lastEvent, pg>>

\* what the listeners do with an event of the stream
OnEvent(c, k, ev) ==
    IF ev = "error"
    THEN [Settle(c, [c EXCEPT !.st = "rejected", !.err = "stream error"])
             EXCEPT !.stream = "closed"]
    ELSE IF ev = "end" THEN [c EXCEPT !.stream = "closed"]
    ELSE Settle(c, OnData(c, k, ev))

\* an event of the stream of a call that has settled: the listeners are
\* still on the stream
RouterLate(k) ==
    /\ k \in 1..Len(calls)
    /\ Settled(calls[k])
    /\ calls[k].transport = "router"
    /\ calls[k].stream = "open"
    /\ \E ev \in StreamEvents \cup {"error", "end"} :
          /\ calls' = [calls EXCEPT ![k] = OnEvent(@, k, ev)]
          /\ lastEvent' = [k |-> k, ev |-> ev]
    /\ UNCHANGED extVars
    /\ UNCHANGED <<config, now, lightningClient, routerClient, nextHandle, msgVars,
                   pg>>

RouterLateStep == \E k \in 1..MaxCalls : RouterLate(k)

NextStream ==
    \/ KeysendCall
    \/ KeysendStep
    \/ RouterLateStep

SpecStream == Init /\ [][NextStream]_vars

\* how an event leaves a pending call of the router path
AfterEvent(ev) ==
    IF ev = "SUCCEEDED" THEN "resolved"
    ELSE IF ev \in {"FAILED", "FAILED_NO_ROUTE", "payment_error", "error"} THEN "rejected"
    ELSE "rpc"

\* C28: on the router path an IN_FLIGHT event leaves the call pending with
\* its stream open; the call resolves on the first SUCCEEDED event and
\* rejects on the first FAILED or FAILED_NO_ROUTE event, on the first event
\* with a payment error and on a stream error; once the call has settled no
\* event changes how it settled.
C28_StreamEvents ==
    [][\A k \in 1..Len(calls) :
          LET c == calls[k]
              d == calls'[k]
          IN  /\ Settled(c) => d.st = c.st /\ d.resp = c.resp /\ d.err = c.err
              /\ (/\ c.st = "rpc"
                  /\ c.transport = "router"
                  /\ lastEvent'.k = k
                  /\ lastEvent' # lastEvent \/ d # c) =>
                    /\ d.st = AfterEvent(lastEvent'.ev)
                    /\ lastEvent'.ev = "IN_FLIGHT" => d = c
                    /\ d.st = "resolved" => d.resp = k]_vars

\* a FAILED event reached a call that SUCCEEDED had resolved
C28_Witness ==
    /\ Len(calls) = 1
    /\ calls[1].transport = "router"
    /\ calls[1].st = "resolved"
    /\ lastEvent = [k |-> 1, ev |-> "FAILED"]

\* C29: the amount in the payment request of every keysend call is the
\* larger of the amount the call was given and the configured minimum, and
\* so never below the minimum: for a direct call the amount of the options,
\* for the chunks of a weave the minimum, and for the last chunk the larger
\* of the options' amount and the minimum.
C29_MinimumAmount ==
    \A k \in 1..Len(calls) :
        calls[k].destLen = PUBKEY_HEX_LENGTH =>
            /\ calls[k].reqAmt >= MIN_SAT_AMOUNT
            /\ calls[k].reqAmt = Max(calls[k].amt, MIN_SAT_AMOUNT)
            /\ calls[k].idx = -1 => calls[k].reqAmt = Max(opts.amt, MIN_SAT_AMOUNT)
            /\ (calls[k].idx >= 0 /\ calls[k].idx < n - 1) =>
                  calls[k].reqAmt = MIN_SAT_AMOUNT
            /\ (calls[k].idx >= 0 /\ calls[k].idx = n - 1) =>
                  calls[k].reqAmt = Max(opts.amt, MIN_SAT_AMOUNT)

C29_Witness ==
    /\ n = 3 /\ Len(calls) = 3
    /\ opts.amt = MIN_SAT_AMOUNT - 2
    /\ calls[3].rpcs = 1
    /\ calls[3].amt = MIN_SAT_AMOUNT - 2
    /\ calls[3].reqAmt = MIN_SAT_AMOUNT
    /\ calls[1].reqAmt = MIN_SAT_AMOUNT

(***************************************************************************)
(* Claims about verifying under greenlight, checked under SpecSign.        *)
(***************************************************************************)
\* C30: under greenlight a verify call computes locally only: from its
\* call to its end it sends no request, starts no resolution of a proxy
\* client, does not fail for want of a client, and leaves the cached client
\* handle as it was.
C30_Original ==
    [][(IS_GREENLIGHT /\ sg.pc \in {"signed", "verifyProxy", "verifyClient"}) =>
          /\ lightningClient' = lightningClient
          /\ sg'.pc \notin {"verifyProxy", "verifyRpc", "verifyRejected"}]_vars

(***************************************************************************)
(* Claims about the replies of the sign and verify RPCs, checked under     *)
(* SpecSign.                                                               *)
(***************************************************************************)
\* C31: under LND a sign call whose reply carries no signature rejects and
\* a verify call whose reply carries no public key rejects; sign does not
\* resolve with an empty signature, verify does not resolve without a
\* public key, and a call whose RPC reported an error rejects with that
\* error.
C31_ReplyChecks ==
    IS_LND =>
        /\ sg.pc = "signed" => sg.sig # <<>> /\ sg.reply.has /\ sg.reply.err = ""
        /\ sg.pc = "verified" => sg.pubkey # <<>> /\ sg.reply.has /\ sg.reply.err = ""
        /\ (sg.pc \in {"signRejected", "verifyRejected"} /\ sg.reply.err # "") =>
              sg.err = sg.reply.err

C31_Witness ==
    /\ IS_LND
    /\ sg.pc = "verifyRejected"
    /\ sg.reply = [err |-> "", has |-> FALSE]
    /\ sg.sig # <<>>

\* C32: under greenlight the envelope that sign produces is 65 bytes: the
\* daemon's raw recovery id (0 or 1) plus 31, then the 64 bytes at offsets
\* 2..65 of the daemon's reply; verify splits it at the same place and
\* subtracts 31, so it recovers with the daemon's raw recovery id.
C32_Envelope ==
    (IS_GREENLIGHT /\ sg.sig # <<>>) =>
        LET envelope == ZDecode(sg.sig)
            daemon == HexDecode(HsmdHandle(sg.msg))
        IN  /\ Len(envelope) = 65
            /\ daemon[67] \in {0, 1}
            /\ envelope[1] = daemon[67] + 31
            /\ SubSeq(envelope, 2, 65) = SubSeq(daemon, 3, 66)
            /\ VerifySigBytes(envelope) = SubSeq(daemon, 3, 66)
            /\ VerifyRecid(envelope) = daemon[67]

C32_Witness ==
    /\ IS_GREENLIGHT
    /\ sg.pc = "verified"
    /\ HexDecode(HsmdHandle(sg.msg))[67] = 1
    /\ ZDecode(sg.sig)[1] = 32

(***************************************************************************)
(* startLDAT called by itself, as the module exports it, with expiry       *)
(* values of every size, and parseLDAT of what it returns.                 *)
(***************************************************************************)
ExpValues == {0, 1, 15, 16, 255, 256, 4095, 4096, 65535, 1048576, 31536000, 1731536000}

\* startLDAT(host, muid, pk, exp, meta)
LdatStart ==
    /\ ld.pc = "idle"
    /\ \E host \in TermsHosts, muid \in LdatMuids,
          pubkey \in {<<>>, <<"0", "3", "7", "3", "c", "a">>},
          exp \in ExpValues, meta \in TermsMetas :
          LET t == startLDAT(host, muid, urlBase64(HexDecode(pubkey)), exp, meta)
          IN  ld' = [IdleLdat EXCEPT
                        !.pc = "started", !.host = host, !.muid = muid,
                        !.pubkey = pubkey, !.meta = meta,
                        !.metaStr = serializeMeta(meta), !.exp = exp,
                        !.terms = t.terms, !.bytes = t.bytes, !.token = t.terms]
    /\ UNCHANGED <<config, lightningClient, nextHandle, gets, transportVars, lockVars, sg>>

\* parseLDAT(ldat.terms)
LdatStartParsed ==
    /\ ld.pc = "started"
    /\ ld' = [ld EXCEPT !.pc = "startParsed", !.parsed = parseLDAT(ld.token)]
    /\ UNCHANGED <<config, lightningClient, nextHandle, gets, transportVars, lockVars, sg>>

NextExpiry ==
    \/ LdatStart
    \/ LdatStartParsed

SpecExpiry == InitLdat /\ [][NextExpiry]_vars

\* the bytes of a number, most significant first, without a leading zero
RECURSIVE MinimalBigEndian(_)
MinimalBigEndian(e) ==
    IF e = 0 THEN <<>> ELSE MinimalBigEndian(e \div 256) \o <<e % 256>>

\* C33: the expiry field of a token holds the minimal big-endian bytes of
\* the expiry value and is empty when the expiry is 0; for every expiry
\* e > 0, decoding the field gives back e.
C33_Original ==
    ld.pc \in {"started", "startParsed"} =>
        LET field == Split(ld.terms, ".")[4]
        IN  /\ ld.exp = 0 => field = <<>>
            /\ B64Decode(field) = MinimalBigEndian(ld.exp)
            /\ (ld.pc = "startParsed" /\ ld.exp > 0) => ld.parsed.ts = ld.exp

(***************************************************************************)
(* The media token of a direct payment: sendPayment of the payments        *)
(* controller calls tokenFromTerms for a payment that carries a muid.      *)
(***************************************************************************)
PaymentMuids == {<<"-", "_", "8", "=">>, <<"A", "A", "A", "A">>}
PaymentOwnerKeys == {<<"0", "3", "7", "3", "c", "a">>, <<"0", "2", "a", "b">>}
PaymentDimensions ==
    {<<"1", "5", "0", "0", "x", "1", "3", "0", "0">>, <<"3", "x", "4">>}

\* if (muid): tokenFromTerms({meta: {dim: dimensions}, host: '', muid,
\* ttl: null, pubkey: owner.publicKey}), up to await Lightning.signBuffer
SendPaymentToken ==
    /\ ld.pc = "idle"
    /\ \E mediaHost \in LdatMediaHosts, muid \in PaymentMuids,
          pubkey \in PaymentOwnerKeys, dimensions \in PaymentDimensions,
          nowSec \in LdatTimes :
          LET meta == <<[k |-> <<"d", "i", "m">>, v |-> Str(dimensions)]>>
              ttl == NoTtl
              t == TokenStart(<<>>, mediaHost, muid, pubkey, ttl, nowSec, meta)
          IN  ld' = [IdleLdat EXCEPT
                        !.pc = "signing", !.host = <<>>, !.mediaHost = mediaHost,
                        !.muid = muid, !.pubkey = pubkey, !.ttl = ttl,
                        !.nowSec = nowSec, !.meta = meta,
                        !.metaStr = serializeMeta(meta), !.exp = Expiry(ttl, nowSec),
                        !.terms = t.terms, !.bytes = t.bytes, !.signs = 1]
    /\ UNCHANGED <<config, lightningClient, nextHandle, gets, transportVars, lockVars, sg>>

NextPayment ==
    \/ SendPaymentToken
    \/ LdatSigned
    \/ LdatParse

SpecPayment == InitLdat /\ [][NextPayment]_vars

\* C34: the media token that sendPayment builds with ttl null expires one
\* year from now: its expiry field is not empty.
C34_Original ==
    (ld.pc \in {"built", "parsed"} /\ ld.ttl = NoTtl) =>
        /\ ld.exp = ld.nowSec + 365 * 24 * 3600
        /\ Split(ld.token, ".")[4] # <<>>

(***************************************************************************)
(* The wallet-unlocker and router clients: loadWalletUnlocker, loadRouter. *)
(***************************************************************************)
\* mutant: a client is constructed on every call
LoadOnce_AlwaysBuilds(cached, built, credsOk) ==
    IF ~credsOk
    THEN [cached |-> cached, built |-> built, threw |-> TRUE, ret |-> 0, tried |-> TRUE]
    ELSE [cached |-> built + 1, built |-> built + 1, threw |-> FALSE,
          ret |-> built + 1, tried |-> TRUE]

\* if (walletUnlocker) return walletUnlocker; else return (walletUnlocker =
\* new lnrpc.WalletUnlocker(...)). loadCredentials and loadProto read files
\* and throw when they cannot (credsOk); the constructor is then not reached
\* and nothing is assigned. built counts the clients constructed so far, and
\* names the newest
LoadOnce(cached, built, credsOk) ==
    IF cached # 0
    THEN [cached |-> cached, built |-> built, threw |-> FALSE, ret |-> cached,
          tried |-> FALSE]
    ELSE IF ~credsOk
    THEN [cached |-> cached, built |-> built, threw |-> TRUE, ret |-> 0, tried |-> TRUE]
    ELSE [cached |-> built + 1, built |-> built + 1, threw |-> FALSE,
          ret |-> built + 1, tried |-> TRUE]

LoadEntry(fn, r) ==
    [fn |-> fn, threw |-> r.threw, ret |-> r.ret, tried |-> r.tried, cached |-> r.cached]

\* loadWalletUnlocker(): the catch logs the error and throws it on
LoadWalletUnlockerCall ==
    /\ Len(ldr.log) < MaxLoads
    /\ \E credsOk \in BOOLEAN :
          LET r == LoadOnce(ldr.walletUnlocker, ldr.built, credsOk)
          IN  ldr' = [ldr EXCEPT !.walletUnlocker = r.cached, !.built = r.built,
                                 !.log = Append(@, LoadEntry("loadWalletUnlocker", r))]
    /\ UNCHANGED <<config, now, lightningClient, routerClient, nextHandle, msgVars,
                   calls, lastEvent, pg, gets, lockVars, sg, ld, chan, bdg>>

\* loadRouter()
LoadRouterCall ==
    /\ Len(ldr.log) < MaxLoads
    /\ \E credsOk \in BOOLEAN :
          LET r == LoadOnce(ldr.routerClient, ldr.built, credsOk)
          IN  ldr' = [ldr EXCEPT !.routerClient = r.cached, !.built = r.built,
                                 !.log = Append(@, LoadEntry("loadRouter", r))]
    /\ UNCHANGED <<config, now, lightningClient, routerClient, nextHandle, msgVars,
                   calls, lastEvent, pg, gets, lockVars, sg, ld, chan, bdg>>

NextLoaders ==
    \/ LoadWalletUnlockerCall
    \/ LoadRouterCall

SpecLoaders == Init /\ [][NextLoaders]_vars

\* the calls of one accessor, in call order
CallsOf(fn) == SelectSeq(ldr.log, LAMBDA e : e.fn = fn)

\* C35: the wallet-unlocker client and the router client are constructed at
\* most once each: after a call that returned, every later call of the same
\* accessor returns the same handle; a loadWalletUnlocker call whose
\* construction fails throws, caches nothing, and the next call tries the
\* construction again.
C35_BuiltOnce ==
    /\ \A fn \in {"loadWalletUnlocker", "loadRouter"} :
          LET c == CallsOf(fn)
          IN  /\ Cardinality({a \in 1..Len(c) : ~c[a].threw /\ c[a].tried}) <= 1
              /\ \A a, b \in 1..Len(c) :
                    (a < b /\ ~c[a].threw) =>
                        ~c[b].threw /\ ~c[b].tried /\ c[b].ret = c[a].ret /\ c[b].ret # 0
    /\ LET c == CallsOf("loadWalletUnlocker")
       IN  \A a \in 1..Len(c) :
              c[a].threw =>
                  /\ c[a].cached = 0
                  /\ a < Len(c) => c[a + 1].tried

C35_Witness ==
    LET c == CallsOf("loadWalletUnlocker")
    IN  /\ Len(c) = 3
        /\ c[1].threw
        /\ ~c[2].threw /\ c[2].tried
        /\ c[3].ret = c[2].ret /\ ~c[3].tried
        /\ ldr.routerClient # 0

(***************************************************************************)
(* A keysend whose payment stream brings no terminal state, checked under  *)
(* Spec.                                                                   *)
(***************************************************************************)
\* the stream of a router keysend is over and the call is still pending
Hung(k) ==
    /\ k \in 1..Len(calls)
    /\ calls[k].transport = "router"
    /\ calls[k].st = "rpc"
    /\ calls[k].stream = "closed"

\* C36: a router keysend stays pending when its stream ends or delivers
\* IN_FLIGHT or an unrecognised state, and once the stream has ended without
\* a terminal state, payment error or stream error the call never settles; a
\* weave that awaits such a chunk issues no further chunk and never settles.
C36_NeverSettles ==
    [][/\ \A k \in 1..Len(calls) :
             /\ ( /\ calls[k].st = "rpc"
                  /\ lastEvent' # lastEvent
                  /\ lastEvent'.k = k
                  /\ lastEvent'.ev \in {"end", "IN_FLIGHT", "UNKNOWN"} )
                   => calls'[k].st = "rpc"
             /\ Hung(k) => calls'[k] = calls[k]
       /\ (pc = "await" /\ Hung(awaiting)) =>
             /\ pc' = "await"
             /\ calls' = calls
             /\ outcome' = Pending
             /\ <<i, success, fail>>' = <<i, success, fail>>]_vars

C36_Witness ==
    /\ pc = "await"
    /\ Hung(awaiting)
    /\ lastEvent = [k |-> awaiting, ev |-> "end"]
    /\ i = 1
    /\ n = 3
    /\ success
    /\ outcome = Pending

(***************************************************************************)
(* A proxy resolution that yields nothing, checked under SpecClient.       *)
(***************************************************************************)
\* C37: a loadLightning call on the proxy path whose proxy resolution
\* yields nothing throws and leaves the cached handle as it was: the handle
\* cached before is cached afterwards and is what the next call that
\* neither takes the proxy path nor bypasses the cache returns.
C37_Original ==
    \A k \in 1..Len(gets) :
        (gets[k].ev = "resolved" /\ ~gets[k].found) =>
            /\ gets[k].st = "threw"
            /\ gets[k].after = gets[k].before
            /\ ( /\ k < Len(gets)
                 /\ LocalCall(k + 1)
                 /\ ~gets[k + 1].noCache
                 /\ gets[k].before # NoClient )
                  => gets[k + 1].st = "returned" /\ gets[k + 1].ret = gets[k].before

(***************************************************************************)
(* Termination of the paginated reads.  The event loop runs every          *)
(* continuation that is ready, so a read that can take its next step takes *)
(* it; every page RPC that was issued calls back.                          *)
(***************************************************************************)
SpecPaginateFair ==
    /\ SpecPaginate
    /\ WF_vars(PageRequest)
    /\ WF_vars(PageReply \/ PageError)

\* C38: listAllInvoices and listAllPayments always return a list in the end
\* when every page RPC calls back and some page has offset 0 or fails, also
\* when loadLightning fails while a page is fetched: no read stays pending
\* for ever.
C38_Original == (pg.pc # "idle") ~> (pg.pc = "done")

(***************************************************************************)
(* The timers of the wallet lock, checked under SpecLock.                  *)
(***************************************************************************)
\* C39: at most one timer of the wallet lock is pending at any time, the
\* one armed by the last setLock call, which cancelled the timer before it;
\* so the lock set by the last setLock(true) is not cleared by a timer
\* before the full interval has passed since that call.
C39_OneTimer ==
    /\ Cardinality(lockTimers) <= 1
    /\ \A t \in lockTimers : t = LOCK_MS - lockAge
    /\ (lockLog # <<>> /\ lockLog[Len(lockLog)] /\ lockAge < LOCK_MS) =>
          /\ isLocked
          /\ lockTimers = {LOCK_MS - lockAge}

C39_Witness ==
    /\ Len(lockLog) = 3
    /\ lockLog[1] /\ lockLog[3]
    /\ isLocked
    /\ lockAge = 2 * LockStep
    /\ lockTimers = {LOCK_MS - 2 * LockStep}

(***************************************************************************)
(* The badge bot: the handler of a tribe message that is not a command.    *)
(* Every message starts a handler of its own; a handler runs from one      *)
(* await to the next, and the handlers of several messages interleave.     *)
(***************************************************************************)
\* the badges of the tribe (models.TribeBadge.findAll) and the members that
\* write
TribeBadges ==
    <<[badgeId |-> "b1", rewardType |-> "earned", rewardRequirement |-> 100],
      [badgeId |-> "b2", rewardType |-> "spent", rewardRequirement |-> 100]>>
BadgeMembers == {"alice", "bob"}
MemberTotals == [totalEarned : {50, 100}, totalSpent : {0, 150}]

\* doReward: the total of the badge's reward type equals or exceeds the
\* requirement
DoReward(chatMember, tribeBadge) ==
    IF tribeBadge.rewardType = "earned"
    THEN chatMember.totalEarned >= tribeBadge.rewardRequirement
    ELSE IF tribeBadge.rewardType = "spent"
    THEN chatMember.totalSpent >= tribeBadge.rewardRequirement
    ELSE FALSE

\* the loop over tribeBadges from index b on, up to the next badge whose
\* reward is due: its index, or 0 when the loop ends
NextDue(chatMember, b) ==
    LET due == {x \in b..Len(TribeBadges) : DoReward(chatMember, TribeBadges[x])}
    IN  IF due = {} THEN 0 ELSE CHOOSE x \in due : \A y \in due : x <= y

\* the handler goes on with the loop from index b: the next await is the
\* checkReward of a badge that is due, or the handler is over
BadgeGoOn(task, b) ==
    LET x == NextDue(task.chatMember, b)
    IN  [task EXCEPT !.i = x, !.pc = IF x = 0 THEN "done" ELSE "checkReward"]

\* a message of a member arrives: the handler reads the member's record and
\* the badges of the tribe and enters the loops
BadgeMessage ==
    /\ Len(bdg.tasks) < MaxMessages
    /\ \E member \in BadgeMembers, totals \in MemberTotals :
          LET chatMember == [contactId |-> member, totalEarned |-> totals.totalEarned,
                             totalSpent |-> totals.totalSpent]
              task == [pc |-> "start", chatMember |-> chatMember, i |-> 0]
          IN  bdg' = [bdg EXCEPT !.tasks = Append(@, BadgeGoOn(task, 1))]
    /\ UNCHANGED <<config, now, lightningClient, routerClient, nextHandle, msgVars,
                   calls, lastEvent, pg, gets, lockVars, sg, ld, chan, ldr>>

\* if (!hasReward.status) transferBadge(...), else the next badge
AfterCheck(task, hasReward) ==
    IF ~hasReward THEN [task EXCEPT !.pc = "transferBadge"]
    ELSE BadgeGoOn(task, task.i + 1)

\* checkReward resolves with what the badge server holds for the member at
\* that moment; when the badge is not there transferBadge is called
BadgeChecked(t) ==
    /\ t \in 1..Len(bdg.tasks)
    /\ bdg.tasks[t].pc = "checkReward"
    /\ LET task == bdg.tasks[t]
           pair == <<task.chatMember.contactId, TribeBadges[task.i].badgeId>>
           next == AfterCheck(task, pair \in bdg.holds)
       IN  bdg' = [bdg EXCEPT
                      !.tasks[t] = next,
                      !.transfers = IF next.pc = "transferBadge"
                                    THEN Append(@, [to |-> pair[1], asset |-> pair[2],
                                                    due |-> DoReward(task.chatMember,
                                                                     TribeBadges[task.i]),
                                                    held |-> pair \in bdg.holds,
                                                    tx |-> FALSE])
                                    ELSE @]
    /\ UNCHANGED <<config, now, lightningClient, routerClient, nextHandle, msgVars,
                   calls, lastEvent, pg, gets, lockVars, sg, ld, chan, ldr>>

\* the transferBadge call of handler t, in bdg.transfers: its last call
TransferOf(t) ==
    LET task == bdg.tasks[t]
        mine == {x \in 1..Len(bdg.transfers) :
                    /\ bdg.transfers[x].to = task.chatMember.contactId
                    /\ bdg.transfers[x].asset = TribeBadges[task.i].badgeId
                    /\ ~bdg.transfers[x].tx}
    IN  CHOOSE x \in mine : \A y \in mine : y <= x

\* transferBadge resolves: with a transaction, then the member holds the
\* badge, the bot announces it and the handler returns; or without one, and
\* the loop goes on
BadgeTransferred(t) ==
    /\ t \in 1..Len(bdg.tasks)
    /\ bdg.tasks[t].pc = "transferBadge"
    /\ \E tx \in BOOLEAN :
          LET task == bdg.tasks[t]
              pair == <<task.chatMember.contactId, TribeBadges[task.i].badgeId>>
          IN  bdg' = IF tx
                     THEN [bdg EXCEPT !.tasks[t].pc = "done",
                                      !.holds = @ \cup {pair},
                                      !.transfers[TransferOf(t)].tx = TRUE]
                     ELSE [bdg EXCEPT !.tasks[t] = BadgeGoOn(task, task.i + 1)]
    /\ UNCHANGED <<config, now, lightningClient, routerClient, nextHandle, msgVars,
                   calls, lastEvent, pg, gets, lockVars, sg, ld, chan, ldr>>

BadgeStep ==
    \E t \in 1..MaxMessages :
        \/ BadgeChecked(t)
        \/ BadgeTransferred(t)

NextBadge ==
    \/ BadgeMessage
    \/ BadgeStep

SpecBadge == Init /\ [][NextBadge]_vars

\* the transferBadge calls that brought a transaction, for one member and
\* one badge
Transferred(member, badgeId) ==
    {x \in 1..Len(bdg.transfers) :
        /\ bdg.transfers[x].to = member
        /\ bdg.transfers[x].asset = badgeId
        /\ bdg.transfers[x].tx}

\* C40: the badge bot transfers a badge to a member at most once:
\* transferBadge is called only when the member's total meets the badge's
\* requirement and the member does not hold the badge, and no interleaving
\* of the handlers of the member's messages transfers a badge twice.
C40_Original ==
    /\ \A x \in 1..Len(bdg.transfers) :
          bdg.transfers[x].due /\ ~bdg.transfers[x].held
    /\ \A member \in BadgeMembers, b \in 1..Len(TribeBadges) :
          Cardinality(Transferred(member, TribeBadges[b].badgeId)) <= 1

====
